---- MODULE Spec2Model ----
(***************************************************************************)
(* Twitter-Liked-Images-Downloader: the metadata store                     *)
(* (persistent_data.py), the rotating log of processed tweet IDs           *)
(* (known_tweets_handler.py) and the sync run (download_liked_tweets.py,   *)
(* twitter_api_bot.py), as one state machine.                              *)
(*                                                                         *)
(* Python values are tagged records: None, an int, a list, a dict.  A      *)
(* dotted key "a.b" is the sequence of its parts <<"a","b">>, which is     *)
(* what key.split(".") makes of it.  Tweet IDs are the decimal strings the *)
(* API returns; str() of a str and strip() of a digit string give the      *)
(* string back, so a line of a file is the ID itself.                      *)
(***************************************************************************)
EXTENDS Integers, Sequences, FiniteSets, TLC

-----------------------------------------------------------------------------
(* Python values *)

NoneV == [t |-> "none"]
IntV(n) == [t |-> "int", v |-> n]
ListV(s) == [t |-> "list", v |-> s]
DictV(f) == [t |-> "dict", v |-> f]
EmptyDict == DictV(<<>>)

\* Python's ==, as "val in [None, prev_val]" applies it
PyEq(a, b) == a = b

\* what a call returns or raises: exc is "ok" or the exception's type
Ok == "ok"

-----------------------------------------------------------------------------
(* persistent_data.DataWrapper *)

default_vals ==
    DictV([twt_db |-> DictV([file_num |-> IntV(1), line_count |-> ListV(<<>>)]),
           liked_tweets |-> DictV([count |-> IntV(0), with_external_urls |-> IntV(0)]),
           imgs_downloaded |-> IntV(0),
           requests_made |-> IntV(0)])

\* the prefix klist[0:-1] and the last part klist[-1] of a split key
Front(ks) == SubSeq(ks, 1, Len(ks) - 1)
Last(ks) == ks[Len(ks)]

\* One pass of the loop of _traverse, "subdict = subdict[kpart]": the mapping
\* sub with what the rest of the loop, r, made of its entry k
Descended(sub, k, r) ==
    [exc |-> r.exc, sub |-> DictV((k :> r.sub) @@ sub.v), fdict |-> r.fdict]

\* The loop of _traverse over klist[0:-1], from the mapping sub.  Gives the
\* mapping as the loop leaves it (intermediate dicts created when create is
\* set, also when a later part raises), the object reached (fdict) and the
\* exception raised, if any.
RECURSIVE TraverseLoop(_, _, _)
TraverseLoop(sub, ks, create) ==
    IF ks = <<>> THEN [exc |-> Ok, sub |-> sub, fdict |-> sub]
    ELSE IF sub.t # "dict" THEN [exc |-> "KeyError", sub |-> sub, fdict |-> NoneV]
    ELSE IF Head(ks) \notin DOMAIN sub.v /\ ~create
    THEN [exc |-> "KeyError", sub |-> sub, fdict |-> NoneV]
    ELSE Descended(sub, Head(ks),
                   TraverseLoop(IF Head(ks) \in DOMAIN sub.v THEN sub.v[Head(ks)]
                                ELSE EmptyDict,
                                Tail(ks), create))

\* _traverse(key, create): d is self._d; a key of one part addresses self._d
_traverse(d, key, create) ==
    IF Len(key) = 1 THEN [exc |-> Ok, sub |-> d, fdict |-> d]
    ELSE TraverseLoop(d, Front(key), create)

\* self._d with the object at the path ks replaced by val (the write through
\* the reference _traverse returned)
RECURSIVE PutAt(_, _, _)
PutAt(sub, ks, val) ==
    IF ks = <<>> THEN val
    ELSE DictV((Head(ks) :> PutAt(sub.v[Head(ks)], Tail(ks), val)) @@ sub.v)

\* fdict[fkey] = val
StoreKey(d, key, val) ==
    LET fd == _traverse(d, key, FALSE).fdict
    IN  PutAt(d, Front(key), DictV((Last(key) :> val) @@ fd.v))

\* del fdict[fkey]
DropKey(d, key) ==
    LET fd == _traverse(d, key, FALSE).fdict
    IN  PutAt(d, Front(key), DictV([k \in DOMAIN fd.v \ {Last(key)} |-> fd.v[k]]))

\* fdest[fkey] on the object _traverse reached: a dict raises KeyError for a
\* missing key, an int, a list or None raises TypeError for a str subscript
Subscript(fd, fkey) ==
    IF fd.t # "dict" THEN [exc |-> "TypeError", val |-> NoneV]
    ELSE IF fkey \notin DOMAIN fd.v THEN [exc |-> "KeyError", val |-> NoneV]
    ELSE [exc |-> Ok, val |-> fd.v[fkey]]

\* "fdest, fkey = self._traverse(key, False)" and "fdest[fkey]", tr being what
\* _traverse gave
Fetch(tr, fkey) ==
    IF tr.exc # Ok THEN [exc |-> tr.exc, val |-> NoneV]
    ELSE Subscript(tr.fdict, fkey)

\* "except <caught>": the default is returned when it is not None, the
\* exception is raised again otherwise; any other exception propagates
OrDefault(r, caught, default) ==
    IF r.exc \in caught /\ default # NoneV
    THEN [exc |-> Ok, val |-> default]
    ELSE r

\* DataWrapper._get(key, default)
_get(d, key, default) ==
    OrDefault(Fetch(_traverse(d, key, FALSE), Last(key)), {"KeyError"}, default)

\* "if not isinstance(fdest[fkey], list): raise ValueError" and
\* "fdest[fkey][index]", got being fdest[fkey]
AtIndex(got, index) ==
    IF got.exc # Ok THEN got
    ELSE IF got.val.t # "list" THEN [exc |-> "ValueError", val |-> NoneV]
    ELSE IF index + 1 > Len(got.val.v) THEN [exc |-> "IndexError", val |-> NoneV]
    ELSE [exc |-> Ok, val |-> got.val.v[index + 1]]

\* DataWrapper._get_in_list(key, index, default); index >= 0
_get_in_list(d, key, index, default) ==
    OrDefault(AtIndex(Fetch(_traverse(d, key, FALSE), Last(key)), index),
              {"KeyError", "IndexError"}, default)

\* Variant of ApplyFunc, to show that C5 depends on it: the function of
\* _save_explicit's counting stores the lines of this write, not the sum
ApplyOverwriting(fn, prev, val) ==
    CASE fn.f = "none" -> [exc |-> Ok, val |-> val]
      [] fn.f = "count" -> [exc |-> Ok, val |-> IntV(fn.n)]
      [] fn.f = "next_temp" ->
            IF prev = NoneV THEN [exc |-> Ok, val |-> IntV(2)]
            ELSE IF prev.t = "int" THEN [exc |-> Ok, val |-> IntV(prev.v + 1)]
            ELSE [exc |-> "TypeError", val |-> NoneV]
      [] fn.f = "plus" ->
            IF prev.t = "int" THEN [exc |-> Ok, val |-> IntV(prev.v + fn.n)]
            ELSE [exc |-> "TypeError", val |-> NoneV]

\* The set_func arguments the program passes, applied to the previous value:
\*   "count"     lambda x: count if x == None else x + count   (n = count)
\*   "next_temp" lambda x: 2 if x == None else x + 1
\*   "plus"      lambda x: x + n        misc_utils.add_one is plus 1
\*   "none"      no set_func: the value passed is kept
ApplyFunc(fn, prev, val) ==
    CASE fn.f = "none" -> [exc |-> Ok, val |-> val]
      [] fn.f = "count" ->
            IF prev = NoneV THEN [exc |-> Ok, val |-> IntV(fn.n)]
            ELSE IF prev.t = "int" THEN [exc |-> Ok, val |-> IntV(prev.v + fn.n)]
            ELSE [exc |-> "TypeError", val |-> NoneV]
      [] fn.f = "next_temp" ->
            IF prev = NoneV THEN [exc |-> Ok, val |-> IntV(2)]
            ELSE IF prev.t = "int" THEN [exc |-> Ok, val |-> IntV(prev.v + 1)]
            ELSE [exc |-> "TypeError", val |-> NoneV]
      [] fn.f = "plus" ->
            IF prev.t = "int" THEN [exc |-> Ok, val |-> IntV(prev.v + fn.n)]
            ELSE [exc |-> "TypeError", val |-> NoneV]

NoFunc == [f |-> "none"]
CountFunc(n) == [f |-> "count", n |-> n]
NextTempFunc == [f |-> "next_temp"]
PlusFunc(n) == [f |-> "plus", n |-> n]

\* What a _set or a _set_in_list that stored nothing leaves: the record as
\* _traverse left it, and the exception raised ("ok" with changed false is the
\* return of False)
Unset(tr, exc) == [exc |-> exc, d |-> tr.sub, changed |-> FALSE]

\* "if val in [None, prev_val]: return False; fdict[fkey] = val; return True",
\* nv being val after set_func.  The store into a list raises TypeError.
SetStore(tr, key, prev_val, nv) ==
    IF nv.exc # Ok THEN Unset(tr, nv.exc)
    ELSE IF PyEq(nv.val, NoneV) \/ PyEq(nv.val, prev_val) THEN Unset(tr, Ok)
    ELSE IF tr.fdict.t = "list" THEN Unset(tr, "TypeError")
    ELSE [exc |-> Ok, d |-> StoreKey(tr.sub, key, nv.val), changed |-> TRUE]

\* "None if fkey not in fdict else fdict[fkey]": a list holds no str
PrevVal(fdict, fkey, absent) ==
    IF fdict.t = "dict" /\ fkey \in DOMAIN fdict.v THEN fdict.v[fkey] ELSE absent

\* _set after "fdict, fkey = self._traverse(key, True)".  "fkey not in fdict"
\* raises TypeError on an int or None.
SetAt(tr, key, val, fn) ==
    IF tr.exc # Ok THEN Unset(tr, tr.exc)
    ELSE IF tr.fdict.t \notin {"dict", "list"} THEN Unset(tr, "TypeError")
    ELSE SetStore(tr, key, PrevVal(tr.fdict, Last(key), NoneV),
                  ApplyFunc(fn, PrevVal(tr.fdict, Last(key), NoneV), val))

\* DataWrapper._set(key, val, set_func): the record afterwards, whether the
\* value was stored, the exception raised
_set(d, key, val, fn) == SetAt(_traverse(d, key, TRUE), key, val, fn)

\* [None for i in range(n)]
RECURSIVE Nones(_)
Nones(n) == IF n <= 0 THEN <<>> ELSE Append(Nones(n - 1), NoneV)

\* the list after "work_list[work_index] = val"
SetItem(list, index, val) ==
    SubSeq(list, 1, index) \o <<val>> \o SubSeq(list, index + 2, Len(list))

\* The end of _set_in_list: work_list[work_index] = val, orig_list extended by
\* work_list when the index was beyond it, fdict[fkey] = orig_list
ListStore(tr, key, orig_list, need_append, work_list, work_index, nv) ==
    IF nv.exc # Ok THEN Unset(tr, nv.exc)
    ELSE IF PyEq(nv.val, NoneV) \/ PyEq(nv.val, work_list[work_index + 1])
    THEN Unset(tr, Ok)
    ELSE IF tr.fdict.t = "list" THEN Unset(tr, "TypeError")
    ELSE [exc |-> Ok,
          d |-> StoreKey(tr.sub, key,
                         ListV(IF need_append
                               THEN orig_list \o SetItem(work_list, work_index, nv.val)
                               ELSE SetItem(work_list, work_index, nv.val))),
          changed |-> TRUE]

\* _set_in_list from "orig_len = len(orig_list)" to the call of set_func
ListWork(tr, key, orig_list, index, val, fn) ==
    IF Len(orig_list) <= index
    THEN ListStore(tr, key, orig_list, TRUE, Nones(index - Len(orig_list) + 1),
                   index - Len(orig_list),
                   ApplyFunc(fn, NoneV, val))
    ELSE ListStore(tr, key, orig_list, FALSE, orig_list, index,
                   ApplyFunc(fn, orig_list[index + 1], val))

\* _set_in_list after "fdict, fkey = self._traverse(key, True)"
SetListAt(tr, key, index, val, fn) ==
    IF tr.exc # Ok THEN Unset(tr, tr.exc)
    ELSE IF tr.fdict.t \notin {"dict", "list"} THEN Unset(tr, "TypeError")
    ELSE IF PrevVal(tr.fdict, Last(key), ListV(<<>>)).t # "list"
    THEN Unset(tr, "ValueError")
    ELSE ListWork(tr, key, PrevVal(tr.fdict, Last(key), ListV(<<>>)).v, index, val, fn)

\* DataWrapper._set_in_list(key, index, val, set_func); index >= 0
_set_in_list(d, key, index, val, fn) ==
    SetListAt(_traverse(d, key, TRUE), key, index, val, fn)

\* _del after "fdict, fkey = self._traverse(key)"
DelAt(tr, d, key) ==
    IF tr.exc = "KeyError" THEN [exc |-> Ok, d |-> d, deleted |-> FALSE]
    ELSE IF tr.fdict.t = "list" THEN [exc |-> Ok, d |-> d, deleted |-> FALSE]
    ELSE IF tr.fdict.t # "dict" THEN [exc |-> "TypeError", d |-> d, deleted |-> FALSE]
    ELSE IF Last(key) \in DOMAIN tr.fdict.v
    THEN [exc |-> Ok, d |-> DropKey(d, key), deleted |-> TRUE]
    ELSE [exc |-> Ok, d |-> d, deleted |-> FALSE]

\* DataWrapper._del(key): only KeyError is caught; "fkey in fdict" is false
\* of a list and raises TypeError on an int or None
_del(d, key) == DelAt(_traverse(d, key, FALSE), d, key)

-----------------------------------------------------------------------------
(* persistent_data: the module's store.  M is the pair of its globals,     *)
(* ld = _loaded_data (id -> record, Absent when the id is no key) and      *)
(* dm = _data_modified (a list of ids).                                    *)

Absent == [t |-> "absent"]

InSeq(x, s) == \E i \in 1..Len(s) : s[i] = x

\* _set_as_modified(id)
_set_as_modified(M, id) ==
    IF InSeq(id, M.dm) THEN M ELSE [M EXCEPT !.dm = Append(@, id)]

\* Variant of _default_if_nonexistent, to show that C24 depends on it: the
\* default record is one dict that every new DataWrapper refers to, so that a
\* new ID starts with what the IDs before it have made of that dict
_default_if_nonexistent_shared(M, id) ==
    IF M.ld[id] # Absent THEN M
    ELSE IF \E k \in DOMAIN M.ld : M.ld[k] # Absent
    THEN _set_as_modified(
             [M EXCEPT !.ld[id] = M.ld[CHOOSE k \in DOMAIN M.ld : M.ld[k] # Absent]], id)
    ELSE _set_as_modified([M EXCEPT !.ld[id] = default_vals], id)

\* _default_if_nonexistent(id)
_default_if_nonexistent(M, id) ==
    IF M.ld[id] = Absent
    THEN _set_as_modified([M EXCEPT !.ld[id] = default_vals], id)
    ELSE M

\* get_data after _default_if_nonexistent(id), M1 being the globals then
GetIn(M1, r) == [M |-> M1, exc |-> r.exc, val |-> r.val]

\* get_data(id, key, index, default); key is <<>> for None, index is NoneV
\* or IntV(i)
get_data(M, id, key, index, default) ==
    GetIn(_default_if_nonexistent(M, id),
          IF key = <<>> THEN [exc |-> Ok, val |-> _default_if_nonexistent(M, id).ld[id]]
          ELSE IF index = NoneV
          THEN _get(_default_if_nonexistent(M, id).ld[id], key, default)
          ELSE _get_in_list(_default_if_nonexistent(M, id).ld[id], key, index.v, default))

\* "if dset: _set_as_modified(id)" and "return dset", r being what _set or
\* _set_in_list gave on the record of M1
SetIn(M1, id, r) ==
    [M |-> IF r.changed THEN _set_as_modified([M1 EXCEPT !.ld[id] = r.d], id)
           ELSE [M1 EXCEPT !.ld[id] = r.d],
     exc |-> r.exc, changed |-> r.changed]

\* set_data(id, key, val, index=, set_func=)
set_data(M, id, key, val, index, fn) ==
    SetIn(_default_if_nonexistent(M, id), id,
          IF index.t = "int"
          THEN _set_in_list(_default_if_nonexistent(M, id).ld[id], key, index.v, val, fn)
          ELSE _set(_default_if_nonexistent(M, id).ld[id], key, val, fn))

\* del_data after "_loaded_data[id]._del(key)"
DelIn(M, id, r) == [M |-> [M EXCEPT !.ld[id] = r.d], exc |-> r.exc, deleted |-> r.deleted]

\* del_data(id, key); key is <<>> for None
del_data(M, id, key) ==
    IF key = <<>>
    THEN IF M.ld[id] # Absent
         THEN [M |-> [M EXCEPT !.ld[id] = Absent], exc |-> Ok, deleted |-> TRUE]
         ELSE [M |-> M, exc |-> Ok, deleted |-> FALSE]
    ELSE IF M.ld[id] = Absent THEN [M |-> M, exc |-> "KeyError", deleted |-> FALSE]
    ELSE DelIn(M, id, _del(M.ld[id], key))

\* The file ./<id>/persistent_data.json: NoFile when there is none, Truncated
\* when open(fp, "w") has emptied it and json.dump has not written the whole
\* record (no JSON document), else the record json.dump wrote
NoFile == [t |-> "nofile"]
Truncated == [t |-> "empty"]

\* persistent_data.load_from_file(id), file being ./<id>/persistent_data.json;
\* json.load of an empty file raises JSONDecodeError
pd_load_from_file(M, file, id) ==
    IF file = NoFile
    THEN [M |-> IF M.ld[id] = Absent THEN _default_if_nonexistent(M, id) ELSE M,
          exc |-> Ok]
    ELSE IF file = Truncated THEN [M |-> M, exc |-> "JSONDecodeError"]
    ELSE [M |-> [M EXCEPT !.ld[id] = file], exc |-> Ok]

\* The loop of save_to_file had it opened the files with open(fp, "a"): a
\* file that holds a record ends with two documents, which json.load rejects
\* as it rejects an empty file.
RECURSIVE DumpAllAppending(_, _, _, _)
DumpAllAppending(ids, ld, files, dirs) ==
    IF ids = <<>> THEN [snap |-> files, exc |-> Ok]
    ELSE IF Head(ids) \notin DOMAIN dirs \/ ~dirs[Head(ids)].udir
    THEN [snap |-> files, exc |-> "FileNotFoundError"]
    ELSE IF ld[Head(ids)] = Absent
    THEN [snap |-> files, exc |-> "KeyError"]
    ELSE DumpAllAppending(Tail(ids), ld,
            [files EXCEPT ![Head(ids)] = IF @ \in {NoFile, Truncated}
                                         THEN ld[Head(ids)] ELSE Truncated],
            dirs)

\* The loop of persistent_data.save_to_file over _data_modified: the files
\* afterwards and the exception that ended it.  open(fp, "w") needs the
\* directory ./<id>/ and empties the file before json.dump reads the record.
RECURSIVE DumpAll(_, _, _, _)
DumpAll(ids, ld, files, dirs) ==
    IF ids = <<>> THEN [snap |-> files, exc |-> Ok]
    ELSE IF Head(ids) \notin DOMAIN dirs \/ ~dirs[Head(ids)].udir
    THEN [snap |-> files, exc |-> "FileNotFoundError"]
    ELSE IF ld[Head(ids)] = Absent
    THEN [snap |-> [files EXCEPT ![Head(ids)] = Truncated], exc |-> "KeyError"]
    ELSE DumpAll(Tail(ids), ld, [files EXCEPT ![Head(ids)] = ld[Head(ids)]], dirs)

\* persistent_data.save_to_file(): files are the snapshots, dirs the users'
\* directories
pd_save_to_file(M, files, dirs) == DumpAll(M.dm, M.ld, files, dirs)

-----------------------------------------------------------------------------
(* Sizes.  The program's limits are scaled down so that a handful of IDs   *)
(* fills a file:                                                           *)
(*   LIMIT_MIN      1000   the least lines per file save_to_file allows    *)
(*   LIMIT_DEFAULT  5000   save_to_file's default limit                    *)
(*   LIMIT_MAX     10000   the most lines per file save_to_file allows     *)
(*   LOAD_DEFAULT   3000   load_from_file's default limit                  *)
(*   LOAD_MAX      10000   what load_from_file makes of a limit outside    *)
(*                         1..10000                                        *)
(* LIMIT_MIN < LIMIT_DEFAULT <= LIMIT_MAX and LOAD_DEFAULT < LOAD_MAX.      *)

LIMIT_MIN == 2
LIMIT_DEFAULT == 3
LIMIT_MAX == 3
LOAD_DEFAULT == 2
LOAD_MAX == 3

Min(a, b) == IF a < b THEN a ELSE b
Max(a, b) == IF a > b THEN a ELSE b

-----------------------------------------------------------------------------
(* known_tweets_handler.  F is the user's directory ./<id>/ on disk:       *)
(*   udir  whether ./<id>/ exists                                          *)
(*   seg   the files known_tweets/<n>.txt: file number -> lines            *)
(*   tdir  whether known_tweets/temp/ exists                               *)
(*   tmp   the files known_tweets/temp/<n>.txt: file number -> lines       *)

K_file_num == <<"twt_db", "file_num">>
K_line_count == <<"twt_db", "line_count">>
K_temp_db == <<"temp_db">>
K_temp_file_num == <<"temp_db", "file_num">>

NoFiles == <<>>
EmptyDir == [udir |-> FALSE, seg |-> NoFiles, tdir |-> FALSE, tmp |-> NoFiles]

\* open(fname, "a") and a write of one line per ID: the file is created
AppendLines(files, n, ls) ==
    (n :> ((IF n \in DOMAIN files THEN files[n] ELSE <<>>) \o ls)) @@ files

\* open(fname, "w") and a write of one line per ID
WriteLines(files, n, ls) == (n :> ls) @@ files

\* file_utils.assemble_dir(id, "known_tweets", create=True)
assemble_dir(F) == [F EXCEPT !.udir = TRUE]

\* file_utils.assemble_dir(id, "known_tweets", "temp"): create defaults to True
assemble_temp_dir(F) == [F EXCEPT !.udir = TRUE, !.tdir = TRUE]

\* fnum as _save_explicit and load_from_file start with it: the argument, or
\* what get_data gives for twt_db.file_num when the argument is None
FileNum(M, id, fnum, default) ==
    IF fnum = NoneV THEN get_data(M, id, K_file_num, NoneV, default)
    ELSE [M |-> M, exc |-> Ok, val |-> fnum]

\* Variant of Count, to show that C4 depends on it: every ID goes to the
\* segment at hand
CountAll(lcount, limit, twtslen) == twtslen

\* the lines _save_explicit writes: "if (count + lcount) < limit" and its loop
Count(lcount, limit, twtslen) ==
    IF lcount < limit THEN Min(twtslen, limit - lcount) ELSE 0

RECURSIVE _save_explicit(_, _, _, _, _, _)

\* _save_explicit after "pd.set_data(id, "twt_db.file_num", fnum_next)": the
\* call of itself on twts[count:]
SaveRest(s2, F2, id, twts, limit, fn, count) ==
    IF s2.exc # Ok THEN [M |-> s2.M, F |-> F2, exc |-> s2.exc]
    ELSE _save_explicit(s2.M, F2, id, SubSeq(twts, count + 1, Len(twts)), limit,
                        IntV(fn + 1))

\* _save_explicit after the set_data of twt_db.line_count
SaveCounted(s1, F2, id, twts, limit, fn, lcount, count) ==
    IF s1.exc # Ok THEN [M |-> s1.M, F |-> F2, exc |-> s1.exc]
    ELSE IF lcount + Len(twts) > limit
    THEN SaveRest(set_data(s1.M, id, K_file_num, IntV(fn + 1), NoneV, NoFunc),
                  F2, id, twts, limit, fn, count)
    ELSE [M |-> s1.M, F |-> F2, exc |-> Ok]

\* _save_explicit from open(fname, "a") on; the file is not opened when it is
\* full
SaveLines(M, F1, id, twts, limit, fn, lcount, count) ==
    SaveCounted(set_data(M, id, K_line_count, NoneV, IntV(fn - 1), CountFunc(count)),
                IF lcount < limit
                THEN [F1 EXCEPT !.seg = AppendLines(@, fn, SubSeq(twts, 1, count))]
                ELSE F1,
                id, twts, limit, fn, lcount, count)

\* _save_explicit after the get_data of twt_db.line_count; a None in the list
\* makes "count + lcount" raise TypeError
SaveInto(g2, F, id, twts, limit, fn) ==
    IF g2.exc # Ok THEN [M |-> g2.M, F |-> F, exc |-> g2.exc]
    ELSE IF g2.val.t # "int" THEN [M |-> g2.M, F |-> assemble_dir(F), exc |-> "TypeError"]
    ELSE SaveLines(g2.M, assemble_dir(F), id, twts, limit, fn, g2.val.v,
                   Count(g2.val.v, limit, Len(twts)))

\* _save_explicit after fnum is known
SaveFrom(g1, F, id, twts, limit) ==
    IF g1.exc # Ok THEN [M |-> g1.M, F |-> F, exc |-> g1.exc]
    ELSE IF Len(twts) <= 0 THEN [M |-> g1.M, F |-> F, exc |-> Ok]
    ELSE SaveInto(get_data(g1.M, id, K_line_count, IntV(g1.val.v - 1), IntV(0)),
                  F, id, twts, limit, g1.val.v)

\* _save_explicit(id, twts, limit, fnum, twtslen); fnum is NoneV or IntV(n).
\* twtslen is len(twts) in every call the program makes.
_save_explicit(M, F, id, twts, limit, fnum) ==
    SaveFrom(FileNum(M, id, fnum, IntV(1)), F, id, twts, limit)

\* save_temp after the get_data of temp_db.file_num
TempWrite(g, F, id, twts) ==
    IF g.exc # Ok THEN [M |-> g.M, F |-> F, exc |-> g.exc]
    ELSE [M |-> set_data(g.M, id, K_temp_file_num, NoneV, NoneV, NextTempFunc).M,
          F |-> [assemble_temp_dir(F) EXCEPT !.tmp = WriteLines(@, g.val.v, twts)],
          exc |-> set_data(g.M, id, K_temp_file_num, NoneV, NoneV, NextTempFunc).exc]

\* save_temp(id, twts)
save_temp(M, F, id, twts) ==
    TempWrite(get_data(M, id, K_temp_file_num, NoneV, IntV(1)), F, id, twts)

\* Variant of TempBatches, to show that C7 depends on it: the temp files are
\* taken from number 1 up
RECURSIVE TempBatchesAscending(_, _)
TempBatchesAscending(tmp, fnum) ==
    IF fnum < 1 THEN <<>>
    ELSE TempBatchesAscending(tmp, fnum - 1)
         \o (IF fnum \in DOMAIN tmp THEN <<tmp[fnum]>> ELSE <<>>)

\* The batches _revolve_temp_files yields, in the order it yields them: the
\* files numbered fnum down to 1 that exist.
RECURSIVE TempBatches(_, _)
TempBatches(tmp, fnum) ==
    IF fnum < 1 THEN <<>>
    ELSE (IF fnum \in DOMAIN tmp THEN <<tmp[fnum]>> ELSE <<>>) \o TempBatches(tmp, fnum - 1)

\* _revolve_temp_files after the get_data of temp_db.file_num
Revolve(g, F1) ==
    IF g.exc # Ok THEN [M |-> g.M, F |-> F1, exc |-> g.exc, batches |-> <<>>]
    ELSE [M |-> g.M, F |-> F1, exc |-> Ok, batches |-> TempBatches(F1.tmp, g.val.v)]

\* _revolve_temp_files(id): the directory is made by assemble_dir (create
\* defaults to True) before it is looked for
_revolve_temp_files(M, F, id) ==
    IF ~assemble_temp_dir(F).tdir
    THEN [M |-> M, F |-> assemble_temp_dir(F), exc |-> Ok, batches |-> <<>>]
    ELSE Revolve(get_data(M, id, K_temp_file_num, NoneV, IntV(0)), assemble_temp_dir(F))

RECURSIVE SaveBatches(_, _, _, _, _)

\* one pass of the loop of _combine_saves_with_temp, r being what
\* _save_explicit gave for the batch
SavedBatch(r, id, rest, limit) ==
    IF r.exc # Ok THEN r ELSE SaveBatches(r.M, r.F, id, rest, limit)

\* the loop of _combine_saves_with_temp over the batches
SaveBatches(M, F, id, batches, limit) ==
    IF batches = <<>> THEN [M |-> M, F |-> F, exc |-> Ok]
    ELSE SavedBatch(_save_explicit(M, F, id, Head(batches), limit, NoneV),
                    id, Tail(batches), limit)

\* _combine_saves_with_temp after the generator's first step
Combine(rv, id, limit) ==
    IF rv.exc # Ok THEN [M |-> rv.M, F |-> rv.F, exc |-> rv.exc]
    ELSE SaveBatches(rv.M, rv.F, id, rv.batches, limit)

\* _combine_saves_with_temp(id, limit)
_combine_saves_with_temp(M, F, id, limit) ==
    Combine(_revolve_temp_files(M, F, id), id, limit)

\* the limit save_to_file works with
SaveLimit(limit) == Min(Max(limit, LIMIT_MIN), LIMIT_MAX)

\* "shutil.rmtree(tmp_dirname)" and "pd.del_data(id, "temp_db")", dl being what
\* del_data gave
Removed(dl, F3) ==
    [M |-> dl.M, F |-> [F3 EXCEPT !.tdir = FALSE, !.tmp = NoFiles], exc |-> dl.exc]

\* Variant of RemoveTemp, to show that C23 depends on it: the temp directory
\* and temp_db are left as _combine_saves_with_temp found them
RemoveTempKept(r2, id) ==
    IF r2.exc # Ok THEN r2
    ELSE [M |-> r2.M, F |-> assemble_temp_dir(r2.F), exc |-> Ok]

\* save_to_file after _combine_saves_with_temp: assemble_dir makes the
\* directory (create defaults to True), so it exists
RemoveTemp(r2, id) ==
    IF r2.exc # Ok THEN r2
    ELSE IF assemble_temp_dir(r2.F).tdir
    THEN Removed(del_data(r2.M, id, K_temp_db), assemble_temp_dir(r2.F))
    ELSE [M |-> r2.M, F |-> assemble_temp_dir(r2.F), exc |-> Ok]

\* save_to_file after _save_explicit(id, twts, limit)
Consolidate(r1, id, lim) ==
    IF r1.exc # Ok THEN r1
    ELSE RemoveTemp(_combine_saves_with_temp(r1.M, r1.F, id, lim), id)

\* save_to_file(id, twts, limit)
save_to_file(M, F, id, twts, limit) ==
    Consolidate(_save_explicit(M, F, id, twts, SaveLimit(limit), NoneV), id,
                SaveLimit(limit))

\* Variant of readline_reverse, to show that C6 depends on it: the lines of
\* the file, first first
readline_forward(lines) == lines

\* file_utils.readline_reverse: the non-blank lines of the file, last first
RECURSIVE readline_reverse(_)
readline_reverse(lines) ==
    IF lines = <<>> THEN <<>>
    ELSE <<lines[Len(lines)]>> \o readline_reverse(SubSeq(lines, 1, Len(lines) - 1))

\* the loop of load_from_file over the reversed lines; count is len(twts)
RECURSIVE ScanLines(_, _, _)
ScanLines(rev, twts, limit) ==
    IF rev = <<>> THEN twts
    ELSE IF Len(twts) >= limit /\ limit > 0 THEN twts
    ELSE IF InSeq(Head(rev), twts) THEN ScanLines(Tail(rev), twts, limit)
    ELSE ScanLines(Tail(rev), Append(twts, Head(rev)), limit)

\* Variant of LoadLimit, to show that C9 depends on it: a limit out of range
\* becomes the default limit
LoadLimitDefault(limit) == IF limit < 1 \/ limit > LOAD_MAX THEN LOAD_DEFAULT ELSE limit

\* the limit load_from_file works with
LoadLimit(limit) == IF limit < 1 \/ limit > LOAD_MAX THEN LOAD_MAX ELSE limit

RECURSIVE load_from_file(_, _, _, _, _)

\* "twts.extend(load_from_file(...))" and "return twts", more being what the
\* inner call gave
Extended(twts, more) ==
    [M |-> more.M, F |-> more.F, exc |-> more.exc,
     val |-> IF more.exc = Ok THEN twts \o more.val ELSE <<>>]

\* load_from_file after its loop over the file's lines
LoadOlder(M, F1, id, lim, fn, twts) ==
    IF lim < 1 THEN Extended(twts, load_from_file(M, F1, id, lim, IntV(fn - 1)))
    ELSE IF lim > Len(twts)
    THEN Extended(twts, load_from_file(M, F1, id, lim - Len(twts), IntV(fn - 1)))
    ELSE [M |-> M, F |-> F1, exc |-> Ok, val |-> twts]

\* Variant of LoadFrom, to show that C11 depends on it: a missing file ends
\* the walk without an error whatever its number
LoadFromLenient(g, F, id, lim) ==
    IF g.exc # Ok THEN [M |-> g.M, F |-> F, exc |-> g.exc, val |-> <<>>]
    ELSE IF g.val.v < 1 THEN [M |-> g.M, F |-> F, exc |-> Ok, val |-> <<>>]
    ELSE IF g.val.v \notin DOMAIN F.seg
    THEN [M |-> g.M, F |-> assemble_dir(F), exc |-> Ok, val |-> <<>>]
    ELSE LoadOlder(g.M, assemble_dir(F), id, lim, g.val.v,
                   ScanLines(readline_reverse(F.seg[g.val.v]), <<>>, lim))

\* load_from_file after fnum is known
LoadFrom(g, F, id, lim) ==
    IF g.exc # Ok THEN [M |-> g.M, F |-> F, exc |-> g.exc, val |-> <<>>]
    ELSE IF g.val.v < 1 THEN [M |-> g.M, F |-> F, exc |-> Ok, val |-> <<>>]
    ELSE IF g.val.v \notin DOMAIN F.seg
    THEN [M |-> g.M, F |-> assemble_dir(F),
          exc |-> IF g.val.v > 1 THEN "RuntimeError" ELSE Ok, val |-> <<>>]
    ELSE LoadOlder(g.M, assemble_dir(F), id, lim, g.val.v,
                   ScanLines(readline_reverse(F.seg[g.val.v]), <<>>, lim))

\* load_from_file(id, limit, fnum); fnum is NoneV or IntV(n)
load_from_file(M, F, id, limit, fnum) ==
    LoadFrom(FileNum(M, id, fnum, NoneV), F, id, LoadLimit(limit))

-----------------------------------------------------------------------------
(* twitter_api_bot and download_liked_tweets.  A page of the feed is the    *)
(* "data" of one response: a sequence of tweets, each                      *)
(*   id     the tweet's ID                                                 *)
(*   media  whether it has "attachments" with "media_keys"                 *)
(*   imgs   the images process_tweet_for_media downloads for it            *)
(*   urls   the expanded_url of each of its "entities"."urls", as the site *)
(*          it points to; empty when the tweet has no "urls"               *)
(* A response carries a next_token unless its page is the feed's last; the  *)
(* response for an empty feed has no "data".                               *)

\* twitter_api_bot.max_requests, 50 in the program: the lookup of the user's
\* ID and two pages fit, a third page does not
MAX_REQUESTS == 3

\* Variant of connect_to_endpoint, to show that C32 depends on it: the count is
\* not compared with max_requests
connect_to_endpoint_unchecked(count, ok) ==
    IF ~ok
    THEN [exc |-> "UnsuccessfulRequestError", requests_count |-> count, sent |-> 1]
    ELSE [exc |-> Ok, requests_count |-> count + 1, sent |-> 1]

\* twitter_api_bot.connect_to_endpoint, count being requests_count and ok
\* whether the response has status 200: the exception raised, requests_count
\* after the call, and the number of requests sent
connect_to_endpoint(count, ok) ==
    IF count >= MAX_REQUESTS
    THEN [exc |-> "RequestCountError", requests_count |-> count, sent |-> 0]
    ELSE IF ~ok
    THEN [exc |-> "UnsuccessfulRequestError", requests_count |-> count, sent |-> 1]
    ELSE [exc |-> Ok, requests_count |-> count + 1, sent |-> 1]

\* what process_response_for_imgs has so far: its locals halt, img_count and
\* tweet_count, the IDs it appended to new_processed_tweets, and the tweets its
\* loop has taken from the page
NoneYet == [halt |-> 0, new |-> <<>>, imgs |-> 0, tweets |-> 0, inspected |-> 0,
            links |-> 0]

\* twitter_api_bot.check_for_external_urls(tweet): some expanded_url does not
\* match "^https://twitter\.com/"
check_for_external_urls(tweet) ==
    \E i \in 1..Len(tweet.urls) : tweet.urls[i] # "twitter.com"

\* twitter_api_bot.reg_external_url(id, tweet, usr_dict): the value returned.
\* Both ways out of it, the bare return and the end of the body after the
\* append to external_urls[id], return None.
reg_external_url(tweet) ==
    IF ~check_for_external_urls(tweet) THEN NoneV ELSE NoneV

\* what "if" and "and" make of a value
Truthy(v) == v \notin {NoneV, IntV(0)}

\* "entities" in tweet and "urls" in tweet["entities"] and
\* twab.reg_external_url(usr_id, tweet, id2usr)
HasExternal(tweet) == tweet.urls # <<>> /\ Truthy(reg_external_url(tweet))

\* the loop of process_response_for_imgs over api_response["data"]
RECURSIVE ScanPage(_, _, _, _)
ScanPage(data, known, ignore, acc) ==
    IF data = <<>> THEN acc
    ELSE IF ~Head(data).media
    THEN ScanPage(Tail(data), known, ignore, [acc EXCEPT !.inspected = @ + 1])
    ELSE IF ~ignore /\ InSeq(Head(data).id, known)
    THEN [acc EXCEPT !.halt = 2, !.inspected = @ + 1]
    ELSE ScanPage(Tail(data), known, ignore,
                  [acc EXCEPT !.new = Append(@, Head(data).id),
                              !.imgs = @ + Head(data).imgs,
                              !.tweets = @ + 1,
                              !.inspected = @ + 1,
                              !.links = @ + (IF HasExternal(Head(data)) THEN 1 ELSE 0)])

\* Variant of process_response_for_imgs, to show that C3 depends on it: the
\* known list is never looked at
process_response_unchecked(data, known, ignore) == ScanPage(data, known, TRUE, NoneYet)

\* Variant of process_response_for_imgs, to show that C20 depends on it: the
\* known list is looked at whatever --ignore-processed is
process_response_checked(data, known, ignore) == ScanPage(data, known, FALSE, NoneYet)

\* process_response_for_imgs(usr_id, api_response, folder, ignore_processed);
\* known is the global processed_tweets; links counts its calls of
\* pd.set_data(usr_id, "liked_tweets.with_external_urls", set_func=mutils.add_one)
process_response_for_imgs(data, known, ignore) == ScanPage(data, known, ignore, NoneYet)

\* The key main passes to set_data: the name id, which main does not bind, is
\* Python's builtin function
BuiltinId == "<built-in function id>"

K_count == <<"liked_tweets", "count">>
K_imgs_downloaded == <<"imgs_downloaded">>
K_requests_made == <<"requests_made">>
K_with_external_urls == <<"liked_tweets", "with_external_urls">>

\* The n calls of pd.set_data(usr_id, "liked_tweets.with_external_urls",
\* set_func=mutils.add_one) that process_response_for_imgs makes for a page
RECURSIVE Linked(_, _, _)
Linked(M, id, n) ==
    IF n = 0 THEN [M |-> M, exc |-> Ok]
    ELSE IF set_data(M, id, K_with_external_urls, NoneV, NoneV, PlusFunc(1)).exc # Ok
    THEN [M |-> set_data(M, id, K_with_external_urls, NoneV, NoneV, PlusFunc(1)).M,
          exc |-> set_data(M, id, K_with_external_urls, NoneV, NoneV, PlusFunc(1)).exc]
    ELSE Linked(set_data(M, id, K_with_external_urls, NoneV, NoneV, PlusFunc(1)).M,
                id, n - 1)

\* main, lines 310 to 312: the three calls of set_data, in turn
Counted3(s2, key, requests) ==
    IF s2.exc # Ok THEN s2
    ELSE set_data(s2.M, key, K_requests_made, NoneV, NoneV, PlusFunc(requests))

Counted2(s1, key, imgs, requests) ==
    IF s1.exc # Ok THEN s1
    ELSE Counted3(set_data(s1.M, key, K_imgs_downloaded, NoneV, NoneV, PlusFunc(imgs)),
                  key, requests)

UpdateCounters(M, key, tweets, imgs, requests) ==
    Counted2(set_data(M, key, K_count, NoneV, NoneV, PlusFunc(tweets)),
             key, imgs, requests)

-----------------------------------------------------------------------------
(* The state *)

Users == {"1001"}

\* a second user, for the processes that work on two users' stores
Others == {"2002"}
Entities == Users \cup Others

\* the IDs handed to save_to_file by a process that only appends and loads
MaxLog == 5
\* the IDs handed to save_to_file and save_temp by a process that stages
MaxStageLog == 4
\* the batches staged and not yet consolidated
MaxStage == 2
\* the IDs in the log before the sync runs
MaxSeed == 2
\* the tweets of the feed
MaxFeed == 3
\* the sync runs
MaxRuns == 2
\* the IDs handed to save_to_file and save_temp by processes that restart
MaxRestartLog == 2
\* the IDs handed to save_to_file by a process whose log loses files
MaxRepairLog == 5
\* the set_data and del_data calls made with a caller's own arguments
MaxMetaCalls == 2
\* the tweets of a feed whose tweets carry URLs
MaxLinkFeed == 2
\* the IDs handed to save_to_file and save_temp by a process that works on
\* two users' stores
MaxTwoLog == 1

VARIABLES
    pc,             \* "idle": no process; "api": a process calling the stores;
                    \* "run", "ended", "done": main in and after its loop;
                    \* "crashed": an exception has escaped
    loaded_data,    \* persistent_data._loaded_data
    data_modified,  \* persistent_data._data_modified
    snap,           \* ./<id>/persistent_data.json: NoFile or the record dumped
    fs,             \* ./<id>/ of each user: see EmptyDir
    last,           \* the last call of the process: its arguments and result
    appended,       \* history: the IDs the log is due to hold, in order: those
                    \* passed to save_to_file and, with each call, those of the
                    \* batches staged before it, the latest batch first
    staged,         \* history: the batches passed to save_temp since the last
                    \* save_to_file, in order
    caps,           \* history: the limits save_to_file has worked with
    calls,          \* history: the set_data and del_data calls of the processes
                    \* that call persistent_data with arguments of their own
    feed,           \* the pages the API serves for the user's liked tweets
    ignore_processed,       \* main's argument
    next_page,              \* the page fetch_liked_tweets asks for next
    processed_tweets,       \* download_liked_tweets.processed_tweets
    new_processed_tweets,   \* download_liked_tweets.new_processed_tweets
    halt,                   \* process_usr_for_liked's halt
    img_count,              \* process_usr_for_liked's img_count
    tweet_count,            \* process_usr_for_liked's tweet_count
    requests_count,         \* twitter_api_bot.requests_count
    inspected,      \* history: the tweets of the feed this run's loops have taken
    runs,           \* history: the calls of main so far
    marked,         \* history: new_processed_tweets as the first run left it
    issued          \* history: the requests this process has sent to the API

storeVars == <<loaded_data, data_modified, snap, fs>>
histVars == <<appended, staged, caps, calls>>
runVars == <<feed, ignore_processed, next_page, processed_tweets, new_processed_tweets,
             halt, img_count, tweet_count, requests_count, inspected, runs, marked, issued>>
vars == <<pc, storeVars, last, histVars, runVars>>

Keys == Entities \cup {BuiltinId}

NoCall == [op |-> "none"]

\* the call l was a set_data that returned True or a del_data of a key that
\* returned True
Mutated(l) ==
    \/ l.op = "pd_set" /\ l.exc = "ok" /\ l.changed
    \/ l.op = "pd_del" /\ l.exc = "ok" /\ l.deleted /\ l.key # <<>>

\* the module's globals as the operators take them, and back
Mem == [ld |-> loaded_data, dm |-> data_modified]
SetMem(M) == loaded_data' = M.ld /\ data_modified' = M.dm

RECURSIVE Flatten(_)
Flatten(ss) == IF ss = <<>> THEN <<>> ELSE Head(ss) \o Flatten(Tail(ss))

RECURSIVE Reverse(_)
Reverse(s) == IF s = <<>> THEN <<>> ELSE Append(Reverse(Tail(s)), Head(s))

\* The tweet IDs in the order the model first uses them.  The stores and the
\* run only compare IDs for equality, so which unused ID an input brings in
\* makes no difference: an input takes the unused IDs in this order.
IdOrder == <<"1", "2", "3", "4">>

RECURSIVE IndexOf(_, _)
IndexOf(x, i) == IF IdOrder[i] = x THEN i ELSE IndexOf(x, i + 1)

RECURSIVE MaxIndex(_)
MaxIndex(q) == IF q = <<>> THEN 0 ELSE Max(IndexOf(Head(q), 1), MaxIndex(Tail(q)))

\* how many IDs are in use: those of IdOrder up to this index
Used == MaxIndex(appended \o Flatten(staged))

\* the sequences of at most n IDs that use, of the IDs beyond the first k, the
\* next one first
RECURSIVE SeqsUpTo(_, _)
SeqsUpTo(k, n) ==
    IF n <= 0 THEN {<<>>}
    ELSE LET shorter == SeqsUpTo(k, n - 1)
         IN  shorter \cup
             UNION {{Append(q, IdOrder[i]) :
                        i \in 1..Min(Len(IdOrder), Max(k, MaxIndex(q)) + 1)} :
                    q \in shorter}

Written == Len(appended) + Len(Flatten(staged))
Batches(max) == SeqsUpTo(Used, max - Written)

\* limits a caller passes to save_to_file: below, at and above the allowed range
SaveLimits == {LIMIT_MIN - 1, LIMIT_DEFAULT, LIMIT_MAX + 1}
\* limits a caller passes to load_from_file
LoadLimits == (-1)..(LOAD_MAX + 1)

Distinct(s) == \A i, j \in 1..Len(s) : s[i] = s[j] => i = j

\* what a tweet is besides its ID: without media, with media whose download
\* fails, with media that gives an image
Kinds == {[media |-> FALSE, imgs |-> 0, urls |-> <<>>],
          [media |-> TRUE, imgs |-> 0, urls |-> <<>>],
          [media |-> TRUE, imgs |-> 1, urls |-> <<>>]}

\* what a tweet with media is besides its ID when tweets carry URLs: to
\* twitter.com, to another site, to both
LinkKinds == {[media |-> TRUE, imgs |-> 1, urls |-> us] :
                 us \in {<<>>, <<"twitter.com">>, <<"example.com">>,
                         <<"twitter.com", "example.com">>}}

Tweet(i, k) == [id |-> i, media |-> k.media, imgs |-> k.imgs, urls |-> k.urls]

\* the ways to serve the tweets ts in pages, none of them empty
RECURSIVE Pagings(_)
Pagings(ts) ==
    IF ts = <<>> THEN {<<>>}
    ELSE UNION {{<<SubSeq(ts, 1, j)>> \o rest :
                    rest \in Pagings(SubSeq(ts, j + 1, Len(ts)))} :
                j \in 1..Len(ts)}

\* the feeds of at most max tweets of the given kinds: a tweet is liked once
FeedsOf(kinds, max) ==
    UNION {UNION {Pagings([i \in 1..Len(q) |-> Tweet(q[i], ks[i])]) :
                     ks \in [1..Len(q) -> kinds]} :
           q \in {q \in SeqsUpTo(Used, max) : Distinct(q)}}

Feeds == FeedsOf(Kinds, MaxFeed)
LinkFeeds == FeedsOf(LinkKinds, MaxLinkFeed)

Init ==
    /\ pc = "idle"
    /\ loaded_data = [k \in Keys |-> Absent]
    /\ data_modified = <<>>
    /\ snap = [k \in Keys |-> NoFile]
    /\ fs = [u \in Entities |-> EmptyDir]
    /\ last = NoCall
    /\ appended = <<>>
    /\ staged = <<>>
    /\ caps = {}
    /\ feed = <<>>
    /\ ignore_processed = FALSE
    /\ next_page = 1
    /\ processed_tweets = <<>>
    /\ new_processed_tweets = <<>>
    /\ halt = 0
    /\ img_count = 0
    /\ tweet_count = 0
    /\ requests_count = 0
    /\ calls = 0
    /\ inspected = 0
    /\ runs = 0
    /\ marked = <<>>
    /\ issued = 0

-----------------------------------------------------------------------------
(* A process that calls the stores, as large_data_test.main does *)

StartApi ==
    /\ pc = "idle"
    /\ runs = 0
    /\ pc' = "api"
    /\ UNCHANGED <<storeVars, last, histVars, runVars>>

\* persistent_data.load_from_file(id)
PdLoad(u) ==
    /\ pc = "api"
    /\ \E r \in {pd_load_from_file(Mem, snap[u], u)} :
           /\ SetMem(r.M)
           /\ last' = [op |-> "pd_load", id |-> u, exc |-> r.exc,
                       before |-> loaded_data[u]]
    /\ UNCHANGED <<pc, snap, fs, histVars, runVars>>

\* persistent_data.save_to_file()
PdSave ==
    /\ pc = "api"
    /\ \E r \in {pd_save_to_file(Mem, snap, fs)} :
           /\ snap' = r.snap
           /\ last' = [op |-> "pd_save", exc |-> r.exc, before |-> snap,
                       dirty |-> data_modified, again |-> (last.op = "pd_save"),
                       mutated |-> Mutated(last)]
    /\ UNCHANGED <<pc, loaded_data, data_modified, fs, histVars, runVars>>

\* known_tweets_handler.save_to_file(id, twts, limit)
KthSave(u, twts, limit) ==
    /\ pc = "api"
    /\ \E r \in {save_to_file(Mem, fs[u], u, twts, limit)} :
           /\ SetMem(r.M)
           /\ fs' = [fs EXCEPT ![u] = r.F]
           /\ last' = [op |-> "save", id |-> u, twts |-> twts, exc |-> r.exc,
                       pending |-> staged]
    /\ appended' = appended \o twts \o Flatten(Reverse(staged))
    /\ staged' = <<>>
    /\ caps' = caps \cup {SaveLimit(limit)}
    /\ UNCHANGED <<pc, snap, calls, runVars>>

\* known_tweets_handler.save_temp(id, twts)
KthSaveTemp(u, twts) ==
    /\ pc = "api"
    /\ Len(staged) < MaxStage
    /\ twts # <<>>
    /\ \E r \in {save_temp(Mem, fs[u], u, twts)} :
           /\ SetMem(r.M)
           /\ fs' = [fs EXCEPT ![u] = r.F]
           /\ last' = [op |-> "save_temp", id |-> u, exc |-> r.exc]
    /\ staged' = Append(staged, twts)
    /\ UNCHANGED <<pc, snap, appended, caps, calls, runVars>>

\* known_tweets_handler.load_from_file(id, limit)
KthLoad(u, limit) ==
    /\ pc = "api"
    /\ \E r \in {load_from_file(Mem, fs[u], u, limit, NoneV)} :
           /\ SetMem(r.M)
           /\ fs' = [fs EXCEPT ![u] = r.F]
           /\ last' = [op |-> "load", id |-> u, limit |-> limit, exc |-> r.exc,
                       val |-> r.val]
    /\ UNCHANGED <<pc, snap, histVars, runVars>>

\* The process ends: its modules' globals are gone, the files stay.
Exit ==
    /\ pc \in {"api", "done", "crashed"}
    /\ pc' = "idle"
    /\ loaded_data' = [k \in Keys |-> Absent]
    /\ data_modified' = <<>>
    /\ last' = NoCall
    /\ processed_tweets' = <<>>
    /\ new_processed_tweets' = <<>>
    /\ halt' = 0
    /\ img_count' = 0
    /\ tweet_count' = 0
    /\ requests_count' = 0
    /\ issued' = 0
    /\ inspected' = 0
    /\ next_page' = 1
    /\ marked' = IF pc # "api" /\ runs = 1 THEN new_processed_tweets ELSE marked
    /\ UNCHANGED <<snap, fs, histVars, feed, ignore_processed, runs>>

-----------------------------------------------------------------------------
(* download_liked_tweets.main, one process per run *)

\* main after "usr_id = twab.fetch_user_ids(username)[0]", r being what
\* kth.load_from_file(usr_id) gave: the module's globals as a new process has
\* them, processed_tweets loaded, the folder made, process_usr_for_liked at the
\* head of its loop
Started(u, r, c) ==
    /\ SetMem(r.M)
    /\ fs' = [fs EXCEPT ![u] = assemble_dir(r.F)]
    /\ requests_count' = c.requests_count
    /\ IF r.exc # Ok
       THEN /\ pc' = "crashed"
            /\ processed_tweets' = <<>>
       ELSE /\ pc' = "run"
            /\ processed_tweets' = r.val
    /\ last' = [op |-> "main", exc |-> r.exc]

\* main up to the call of process_usr_for_liked.  The feed and the
\* --ignore-processed of the command line are chosen with the first run: a
\* later run is the first one's command against the same feed.  ok is whether
\* the lookup of the user's ID gets status 200.
StartRunWith(u, ok, feeds) ==
    /\ pc = "idle"
    /\ runs < MaxRuns
    /\ \E f \in (IF runs = 0 THEN feeds ELSE {feed}),
          ig \in (IF runs = 0 THEN BOOLEAN ELSE {ignore_processed}) :
           feed' = f /\ ignore_processed' = ig
    /\ runs' = runs + 1
    /\ \E c \in {connect_to_endpoint(requests_count, ok)} :
           /\ issued' = issued + c.sent
           /\ IF c.exc = Ok
              THEN Started(u, load_from_file(Mem, fs[u], u, LOAD_DEFAULT, NoneV), c)
              ELSE /\ pc' = "crashed"
                   /\ last' = [op |-> "main", exc |-> c.exc]
                   /\ UNCHANGED <<storeVars, processed_tweets, requests_count>>
    /\ UNCHANGED <<snap, histVars, next_page, new_processed_tweets, halt, img_count,
                   tweet_count, inspected, marked>>

\* main for a feed of tweets without URLs
StartRun(u, ok) == StartRunWith(u, ok, Feeds)

\* main for a feed of tweets with URLs
StartRunLinks(u, ok) == StartRunWith(u, ok, LinkFeeds)

\* whether next(liked_tweets) makes a request: the generator ends without one
\* after a response that had no next_token
Requests == next_page = 1 \/ next_page <= Len(feed)

\* "halt, imgs, tweets = process_response_for_imgs(...)" and the rest of the
\* loop's body, r being what process_response_for_imgs gave and s what its
\* calls of set_data made of the records
Processed(r, s) ==
    /\ SetMem(s.M)
    /\ UNCHANGED <<snap, fs>>
    /\ new_processed_tweets' = new_processed_tweets \o r.new
    /\ img_count' = img_count + r.imgs
    /\ tweet_count' = tweet_count + r.tweets
    /\ inspected' = inspected + r.inspected
    /\ halt' = r.halt
    /\ IF r.halt > 0
       THEN pc' = "ended" /\ next_page' = next_page
       ELSE pc' = "run" /\ next_page' = next_page + 1

\* Variant of Unsuccessful, to show that C25 depends on it: process_usr_for_liked
\* has no handler and the exception leaves main
UnsuccessfulUncaught ==
    /\ pc' = "crashed"
    /\ last' = [op |-> "main", exc |-> "UnsuccessfulRequestError"]
    /\ UNCHANGED <<storeVars, next_page, new_processed_tweets, halt, img_count,
                   tweet_count, requests_count, inspected>>

\* connect_to_endpoint raises UnsuccessfulRequestError in the loop of
\* process_usr_for_liked: "except twab.UnsuccessfulRequestError: halt = 1",
\* and the function returns what it has counted
Unsuccessful ==
    /\ pc' = "ended"
    /\ halt' = 1
    /\ UNCHANGED <<storeVars, last, next_page, new_processed_tweets, img_count,
                   tweet_count, requests_count, inspected>>

\* One pass of the loop of process_usr_for_liked: next(liked_tweets), which
\* runs fetch_liked_tweets to its next yield, and the loop's body.  ok is
\* whether the request gets status 200.  Only UnsuccessfulRequestError is
\* caught.
RunPage(u, ok) ==
    /\ pc = "run"
    /\ IF ~Requests
       THEN /\ pc' = "ended"
            /\ UNCHANGED <<storeVars, last, next_page, new_processed_tweets, halt,
                           img_count, tweet_count, requests_count, inspected, issued>>
       ELSE \E c \in {connect_to_endpoint(requests_count, ok)} :
            /\ issued' = issued + c.sent
            /\ IF c.exc = "RequestCountError"
               THEN /\ pc' = "crashed"
                    /\ last' = [op |-> "main", exc |-> c.exc]
                    /\ UNCHANGED <<storeVars, next_page, new_processed_tweets, halt,
                                   img_count, tweet_count, requests_count, inspected>>
               ELSE IF c.exc # Ok
               THEN Unsuccessful
               ELSE /\ requests_count' = c.requests_count
                    /\ last' = last
                    /\ IF next_page > Len(feed)
                       THEN /\ pc' = "ended"
                            /\ UNCHANGED <<storeVars, next_page, new_processed_tweets,
                                           halt, img_count, tweet_count, inspected>>
                       ELSE \E r \in {process_response_for_imgs(feed[next_page],
                                                                 processed_tweets,
                                                                 ignore_processed)} :
                                Processed(r, Linked(Mem, u, r.links))
    /\ UNCHANGED <<histVars, feed, ignore_processed, processed_tweets, runs, marked>>

\* main after process_usr_for_liked has returned: the counters go to the
\* record of the key id, and dump_external_urls_for_usr finds no URLs
RunEnd ==
    /\ pc = "ended"
    /\ \E r \in {UpdateCounters(Mem, BuiltinId, tweet_count, img_count, requests_count)} :
           /\ SetMem(r.M)
           /\ pc' = IF r.exc = Ok THEN "done" ELSE "crashed"
           /\ last' = [op |-> "main", exc |-> r.exc, before |-> loaded_data]
    /\ UNCHANGED <<snap, fs, histVars, runVars>>

-----------------------------------------------------------------------------
(* The specifications *)

Next ==
    \/ StartApi
    \/ \E u \in Users, twts \in Batches(MaxSeed) : KthSave(u, twts, LIMIT_DEFAULT)
    \/ Exit
    \/ \E u \in Users, ok \in BOOLEAN : StartRun(u, ok)
    \/ \E u \in Users, ok \in BOOLEAN : RunPage(u, ok)
    \/ RunEnd

\* processes that fill the log of a new user directory, then the sync runs
Spec == Init /\ [][Next]_vars

NextLinks ==
    \/ StartApi
    \/ \E u \in Users, twts \in Batches(MaxSeed) : KthSave(u, twts, LIMIT_DEFAULT)
    \/ Exit
    \/ \E u \in Users, ok \in BOOLEAN : StartRunLinks(u, ok)
    \/ \E u \in Users, ok \in BOOLEAN : RunPage(u, ok)
    \/ RunEnd

\* the same with feeds whose tweets carry URLs
SpecLinks == Init /\ [][NextLinks]_vars

NextProc ==
    \/ StartApi
    \/ \E u \in Users : PdLoad(u)
    \/ \E u \in Users, twts \in Batches(MaxLog), limit \in SaveLimits :
            KthSave(u, twts, limit)
    \/ \E u \in Users, limit \in LoadLimits : KthLoad(u, limit)

\* one process on a new user directory that appends to the log and loads it
SpecProc == Init /\ [][NextProc]_vars

NextStage ==
    \/ StartApi
    \/ \E u \in Users : PdLoad(u)
    \/ \E u \in Users, twts \in Batches(MaxStageLog), limit \in SaveLimits :
            KthSave(u, twts, limit)
    \/ \E u \in Users, twts \in Batches(MaxStageLog) : KthSaveTemp(u, twts)

\* one process on a new user directory that appends, stages and consolidates
SpecStage == Init /\ [][NextStage]_vars

NextRestart ==
    \/ StartApi
    \/ \E u \in Users : PdLoad(u)
    \/ \E u \in Users, twts \in Batches(MaxRestartLog) : KthSave(u, twts, LIMIT_DEFAULT)
    \/ \E u \in Users, twts \in Batches(MaxRestartLog) : KthSaveTemp(u, twts)
    \/ PdSave
    \/ Exit

\* processes that append, stage, consolidate and flush, one after the other
SpecRestart == Init /\ [][NextRestart]_vars

\* A segment file of the user's log is gone: the corruption load_from_file
\* looks for.  The program itself never removes a segment file.
Lose(u, k) ==
    /\ pc = "api"
    /\ k \in DOMAIN fs[u].seg
    /\ fs' = [fs EXCEPT ![u].seg =
                 IF DOMAIN @ = {k} THEN NoFiles
                 ELSE [j \in DOMAIN @ \ {k} |-> @[j]]]
    /\ last' = [op |-> "lose", id |-> u, fnum |-> k]
    /\ UNCHANGED <<pc, loaded_data, data_modified, snap, histVars, runVars>>

NextRepair ==
    \/ StartApi
    \/ \E u \in Users, twts \in Batches(MaxRepairLog) : KthSave(u, twts, LIMIT_MIN)
    \/ \E u \in Users, k \in 1..MaxRepairLog : Lose(u, k)
    \/ \E u \in Users, limit \in LoadLimits : KthLoad(u, limit)

\* one process that appends to the log and loads it, while files of the log
\* get lost
SpecRepair == Init /\ [][NextRepair]_vars

-----------------------------------------------------------------------------
(* A process that calls persistent_data with keys, values and functions of *)
(* its own                                                                 *)

\* the keys a caller passes: an int and a list of the default record, a key
\* below a mapping the default record lacks, and a key two levels below an int
MetaKeys ==
    {<<"imgs_downloaded">>, K_line_count, K_temp_file_num,
     <<"imgs_downloaded", "x", "y">>}

MetaVals == {NoneV, IntV(1)}
MetaIndexes == {NoneV, IntV(0)}
MetaFuncs == {NoFunc, PlusFunc(1)}
MetaDefaults == {NoneV, IntV(1)}

\* persistent_data.get_data(id, key, index, default)
PdGet(u, key, index, default) ==
    /\ pc = "api"
    /\ \E r \in {get_data(Mem, u, key, index, default)} :
           /\ SetMem(r.M)
           /\ last' = [op |-> "pd_get", id |-> u, key |-> key, index |-> index,
                       default |-> default, exc |-> r.exc, val |-> r.val]
    /\ UNCHANGED <<pc, snap, fs, histVars, runVars>>

\* persistent_data.set_data(id, key, val, index=index, set_func=fn)
PdSet(u, key, val, index, fn) ==
    /\ pc = "api"
    /\ calls < MaxMetaCalls
    /\ \E r \in {set_data(Mem, u, key, val, index, fn)} :
           /\ SetMem(r.M)
           /\ last' = [op |-> "pd_set", id |-> u, key |-> key, val |-> val,
                       index |-> index, fn |-> fn, exc |-> r.exc,
                       changed |-> r.changed, before |-> loaded_data[u]]
    /\ calls' = calls + 1
    /\ UNCHANGED <<pc, snap, fs, appended, staged, caps, runVars>>

\* persistent_data.del_data(id, key)
PdDel(u, key) ==
    /\ pc = "api"
    /\ calls < MaxMetaCalls
    /\ \E r \in {del_data(Mem, u, key)} :
           /\ SetMem(r.M)
           /\ last' = [op |-> "pd_del", id |-> u, key |-> key, exc |-> r.exc,
                       deleted |-> r.deleted]
    /\ calls' = calls + 1
    /\ UNCHANGED <<pc, snap, fs, appended, staged, caps, runVars>>

\* file_utils.assemble_dir(id): the user's directory is made
MakeDir(u) ==
    /\ pc = "api"
    /\ ~fs[u].udir
    /\ fs' = [fs EXCEPT ![u] = assemble_dir(@)]
    /\ last' = [op |-> "assemble_dir", id |-> u]
    /\ UNCHANGED <<pc, loaded_data, data_modified, snap, histVars, runVars>>

\* The process dies in persistent_data.save_to_file, in the pass of its loop
\* for the k-th ID of _data_modified, between open(fp, "w") and the end of
\* json.dump: the files of the IDs before it are written, its own file is
\* left without the whole record.
PdSaveCrash(k) ==
    /\ pc = "api"
    /\ k \in 1..Len(data_modified)
    /\ \E r \in {DumpAll(SubSeq(data_modified, 1, k), loaded_data, snap, fs)} :
           /\ r.exc = Ok
           /\ snap' = [r.snap EXCEPT ![data_modified[k]] = Truncated]
    /\ last' = [op |-> "pd_save_crash", before |-> snap, ld |-> loaded_data]
    /\ pc' = "idle"
    /\ loaded_data' = [key \in Keys |-> Absent]
    /\ data_modified' = <<>>
    /\ UNCHANGED <<fs, histVars, runVars>>

NextMeta ==
    \/ StartApi
    \/ \E u \in Users : MakeDir(u)
    \/ \E u \in Users : PdLoad(u)
    \/ \E u \in Users, key \in MetaKeys, index \in MetaIndexes,
          default \in MetaDefaults : PdGet(u, key, index, default)
    \/ \E u \in Users, key \in MetaKeys, val \in MetaVals, index \in MetaIndexes,
          fn \in MetaFuncs : PdSet(u, key, val, index, fn)
    \/ \E u \in Users, key \in MetaKeys \cup {<<>>, K_temp_db} : PdDel(u, key)
    \/ PdSave
    \/ \E k \in 1..Cardinality(Keys) : PdSaveCrash(k)
    \/ Exit

\* processes that read, set, delete, load and flush a user's record
SpecMeta == Init /\ [][NextMeta]_vars

-----------------------------------------------------------------------------
(* A process that works on the stores of two users *)

\* the key it passes
TwoKeys == {<<"imgs_downloaded">>}

NextTwo ==
    \/ StartApi
    \/ \E u \in Users : PdLoad(u)
    \/ \E u \in Users, key \in TwoKeys : PdGet(u, key, NoneV, NoneV)
    \/ \E u \in Entities, key \in TwoKeys : PdSet(u, key, IntV(1), NoneV, NoFunc)
    \/ \E u \in Users, key \in TwoKeys \cup {<<>>} : PdDel(u, key)
    \/ PdSave
    \/ \E u \in Entities, twts \in Batches(MaxTwoLog) : KthSave(u, twts, LIMIT_MIN)
    \/ \E u \in Users, twts \in Batches(MaxTwoLog) : KthSaveTemp(u, twts)
    \/ \E u \in Users : KthLoad(u, LOAD_DEFAULT)

\* one process that reads, sets, deletes, loads, appends, stages and
\* consolidates for two users
SpecTwo == Init /\ [][NextTwo]_vars


-----------------------------------------------------------------------------
(* What the properties read *)

TheUser == CHOOSE u \in Users : TRUE

\* the highest file number in a directory, 0 when it holds no file
Highest(files) ==
    IF DOMAIN files = {} THEN 0
    ELSE CHOOSE n \in DOMAIN files : \A m \in DOMAIN files : m <= n

\* the lines of the files numbered 1 to n, file 1 first; a missing file has none
RECURSIVE LinesUpTo(_, _)
LinesUpTo(files, n) ==
    IF n < 1 THEN <<>>
    ELSE LinesUpTo(files, n - 1) \o (IF n \in DOMAIN files THEN files[n] ELSE <<>>)

\* the log on disk, oldest line first
LogLines == LinesUpTo(fs[TheUser].seg, Highest(fs[TheUser].seg))

\* whether an ID is on disk for the user, in the log or in a staged batch
Stored(x) ==
    \/ InSeq(x, LogLines)
    \/ InSeq(x, LinesUpTo(fs[TheUser].tmp, Highest(fs[TheUser].tmp)))

\* whether s ends with t
EndsWith(s, t) ==
    Len(t) <= Len(s) /\ SubSeq(s, Len(s) - Len(t) + 1, Len(s)) = t

\* twt_db.file_num and twt_db.line_count[k - 1] as _save_explicit reads them
SegmentCount == get_data(Mem, TheUser, K_file_num, NoneV, IntV(1)).val
LineCount(k) == get_data(Mem, TheUser, K_line_count, IntV(k - 1), IntV(0)).val

\* the tweets of the feed in the order the API serves them
Tweets == Flatten(feed)

RECURSIVE MediaIds(_)
MediaIds(ts) ==
    IF ts = <<>> THEN <<>>
    ELSE (IF Head(ts).media THEN <<Head(ts).id>> ELSE <<>>) \o MediaIds(Tail(ts))

RECURSIVE Ids(_)
Ids(ts) == IF ts = <<>> THEN <<>> ELSE <<Head(ts).id>> \o Ids(Tail(ts))

\* the least member of a set of positions, 0 for the empty set
First(S) == IF S = {} THEN 0 ELSE CHOOSE i \in S : \A j \in S : i <= j

\* the position in the feed of the first tweet whose ID is known, and of the
\* first tweet with media whose ID is known; 0 when there is none
FirstKnown == First({i \in 1..Len(Tweets) : InSeq(Tweets[i].id, processed_tweets)})
FirstKnownMedia ==
    First({i \in 1..Len(Tweets) :
              Tweets[i].media /\ InSeq(Tweets[i].id, processed_tweets)})

\* the page that holds the tweet at position p of the feed
PageOf(p) == First({k \in 1..Len(feed) : Len(Flatten(SubSeq(feed, 1, k))) >= p})

InRun == pc \in {"run", "ended", "done"}

-----------------------------------------------------------------------------
(* The properties *)

\* C1: when a sync run has ended (main has returned, whatever the halt
\* reason), every ID in the run's accumulator new_processed_tweets is on disk
\* for the user, in the log or in a staged batch.
C1_AccumulatedCommitted ==
    pc = "done" =>
        \A i \in 1..Len(new_processed_tweets) : Stored(new_processed_tweets[i])

\* C2: in the second of two runs of the same command against the same feed,
\* without --ignore-processed, every ID the first run marked is in the known
\* list the second run loaded, and the second run marks none of them again.
C2_NoItemTwice ==
    (runs = 2 /\ InRun /\ ~ignore_processed) =>
        /\ \A i \in 1..Len(marked) : InSeq(marked[i], processed_tweets)
        /\ \A j \in 1..Len(new_processed_tweets) :
               ~InSeq(new_processed_tweets[j], marked)

\* C3 as stated: without --ignore-processed, when the run has ended after the
\* pages were served and the first tweet of the feed whose ID is known is at
\* position p, the accumulator holds exactly the IDs of the tweets before p, in
\* feed order, the run has halted on a duplicate, and it took no tweet after p.
C3_HaltsAtFirstKnown ==
    (~ignore_processed /\ pc \in {"ended", "done"} /\ halt # 1 /\ FirstKnown > 0) =>
        /\ new_processed_tweets = Ids(SubSeq(Tweets, 1, FirstKnown - 1))
        /\ halt = 2
        /\ inspected = FirstKnown

\* C3 amended: without --ignore-processed, with p the position of the first
\* tweet that has media and a known ID: at every point of the run the
\* accumulator holds, in feed order, the IDs of the tweets with media among
\* those the run has taken before p; the run has halted on a duplicate exactly
\* when it has taken the tweet at p; it takes no tweet after p; and once halted
\* it has fetched no page after the one that holds p.
C3_HaltsAtFirstKnownMedia ==
    (~ignore_processed /\ InRun) =>
        /\ new_processed_tweets =
               MediaIds(SubSeq(Tweets, 1,
                               IF FirstKnownMedia > 0 /\ inspected >= FirstKnownMedia
                               THEN FirstKnownMedia - 1 ELSE inspected))
        /\ (halt = 2) <=> (FirstKnownMedia > 0 /\ inspected >= FirstKnownMedia)
        /\ FirstKnownMedia > 0 => inspected <= FirstKnownMedia
        /\ halt = 2 => /\ next_page = PageOf(FirstKnownMedia)
                       /\ requests_count = 1 + next_page

\* a run that marked a tweet, then halted on a known one with a page unfetched
C3_Witness ==
    /\ pc = "done" /\ ~ignore_processed /\ halt = 2
    /\ new_processed_tweets # <<>>
    /\ next_page < Len(feed)

\* C4: when every save_to_file so far has worked with the same limit C, the
\* segment files are numbered 1 to the head, each one below the head holds
\* exactly C lines, the head holds at most C, and the lines in all of them are
\* as many as the IDs passed to save_to_file.
C4_Rotation ==
    Cardinality(caps) = 1 =>
        \E C \in caps :
            /\ DOMAIN fs[TheUser].seg = 1..Highest(fs[TheUser].seg)
            /\ \A k \in DOMAIN fs[TheUser].seg :
                   IF k < Highest(fs[TheUser].seg)
                   THEN Len(fs[TheUser].seg[k]) = C
                   ELSE Len(fs[TheUser].seg[k]) <= C
            /\ Len(LogLines) = Len(appended)

\* two full segments below a head that is not full
C4_Witness ==
    /\ caps = {LIMIT_MIN}
    /\ Highest(fs[TheUser].seg) = 3
    /\ Len(fs[TheUser].seg[3]) < LIMIT_MIN
    /\ last.op = "save"

\* C5: in a process that appends, stages and consolidates, once the user has
\* a record: twt_db.file_num is the number of the highest segment file (1 when
\* there is none), and for every k from 1 to twt_db.file_num the count the
\* program reads from twt_db.line_count[k - 1] is the number of lines in
\* segment file k.
C5_CountsMatchFiles ==
    loaded_data[TheUser] # Absent =>
        /\ SegmentCount = IntV(Max(1, Highest(fs[TheUser].seg)))
        /\ \A k \in 1..SegmentCount.v :
               LineCount(k) = IntV(Len(LinesUpTo(fs[TheUser].seg, k))
                                   - Len(LinesUpTo(fs[TheUser].seg, k - 1)))

\* a consolidation of staged batches that went into a second segment
C5_Witness ==
    /\ last.op = "save" /\ last.pending # <<>>
    /\ SegmentCount = IntV(2)
    /\ LineCount(2) = IntV(1)

\* C6 as stated: after the IDs i1 .. in were appended in that order, a load
\* with a limit L from 1 to n returns the L latest of them, the newest first.
C6_LoadsLatest ==
    (/\ last.op = "load" /\ last.exc = Ok
     /\ last.limit >= 1 /\ last.limit <= Len(appended)) =>
        last.val = SubSeq(Reverse(appended), 1, last.limit)

\* C6 amended: after the IDs i1 .. in, all different, were appended in that
\* order, a load with a limit L from 1 to n that is not above the maximum
\* limit of a load returns the L latest of them, the newest first.
C6_LoadsLatestDistinct ==
    (/\ last.op = "load" /\ last.exc = Ok
     /\ Distinct(appended)
     /\ last.limit >= 1 /\ last.limit <= Min(Len(appended), LOAD_MAX)) =>
        last.val = SubSeq(Reverse(appended), 1, last.limit)

\* a load that went from the head segment into the one below it
C6_Witness ==
    /\ last.op = "load" /\ last.exc = Ok
    /\ Distinct(appended)
    /\ last.limit = 3 /\ Len(last.val) = 3
    /\ Highest(fs[TheUser].seg) = 2
    /\ Len(fs[TheUser].seg[2]) < 3

\* C7: a save_to_file that comes, in the same process, after one or more
\* save_temp returns normally, leaves the log ending with the staged batches,
\* the latest batch first and each batch in its own order, leaves no temp
\* directory and no temp file, and leaves the record without temp_db.
C7_Consolidated ==
    (last.op = "save" /\ last.pending # <<>>) =>
        /\ last.exc = Ok
        /\ EndsWith(LogLines, Flatten(Reverse(last.pending)))
        /\ ~fs[TheUser].tdir
        /\ fs[TheUser].tmp = NoFiles
        /\ "temp_db" \notin DOMAIN loaded_data[TheUser].v

\* a save_to_file with no new IDs after two staged batches, no ID twice
C7_Witness ==
    /\ last.op = "save" /\ last.twts = <<>>
    /\ Len(last.pending) = 2
    /\ Len(LogLines) >= 3
    /\ Distinct(LogLines)

\* C8: a save_to_file that returns normally, whichever process makes it,
\* leaves in the log every ID of the batches that save_temp wrote since the
\* save_to_file before it.
C8_StagedSurviveRestart ==
    (last.op = "save" /\ last.exc = Ok) =>
        \A b \in 1..Len(last.pending) :
            \A i \in 1..Len(last.pending[b]) : InSeq(last.pending[b][i], LogLines)

\* C9 as stated: a load with a limit of 0 or less returns every ID that is in
\* a segment of the log.
C9_LoadsAll ==
    (last.op = "load" /\ last.exc = Ok /\ last.limit <= 0) =>
        \A i \in 1..Len(LogLines) : InSeq(LogLines[i], last.val)

\* C9 amended: a load with a limit of 0 or less returns at most as many IDs
\* as the maximum limit of a load, and returns every ID that is in a segment
\* of the log when the log has no more lines than that.
C9_LoadsAllUpToMax ==
    (last.op = "load" /\ last.exc = Ok /\ last.limit <= 0) =>
        /\ Len(last.val) <= LOAD_MAX
        /\ Len(LogLines) <= LOAD_MAX =>
               \A i \in 1..Len(LogLines) : InSeq(LogLines[i], last.val)

\* a load with limit 0 of a log that has different IDs in two segments
C9_Witness ==
    /\ last.op = "load" /\ last.exc = Ok /\ last.limit = 0
    /\ Highest(fs[TheUser].seg) = 2
    /\ Distinct(LogLines)
    /\ Len(last.val) = Len(LogLines)
    /\ Len(LogLines) = LOAD_MAX

\* C10: the list a load returns never has the same ID twice.
C10_NoRepeat ==
    (last.op = "load" /\ last.exc = Ok) => Distinct(last.val)

\* C12: a RequestCountError raised by a page fetch does not escape the run:
\* no run ends with that exception propagating out of main (the run is to
\* end with halt = 1 instead and go on to main's last steps).
C12_BudgetHaltsRun ==
    ~(pc = "crashed" /\ last.op = "main" /\ last.exc = "RequestCountError")

\* C20 as stated: with --ignore-processed, at every point of the run, the run
\* has not halted on a duplicate, and the accumulator holds the IDs of all the
\* tweets of the pages fetched, in feed order.
C20_IgnoreMarksAll ==
    (ignore_processed /\ InRun) =>
        /\ halt # 2
        /\ inspected = Len(Flatten(SubSeq(feed, 1, next_page - 1)))
        /\ new_processed_tweets = Ids(SubSeq(Tweets, 1, inspected))

\* C20 amended: with --ignore-processed, at every point of the run, the run
\* has not halted on a duplicate, its loops have taken every tweet of the
\* pages fetched, and the accumulator holds the IDs of those of them that
\* have media, in feed order, known or not.
C20_IgnoreMarksAllMedia ==
    (ignore_processed /\ InRun) =>
        /\ halt # 2
        /\ inspected = Len(Flatten(SubSeq(feed, 1, next_page - 1)))
        /\ new_processed_tweets = MediaIds(SubSeq(Tweets, 1, inspected))

\* a run with --ignore-processed that has marked a known tweet and one after it
C20_Witness ==
    /\ pc = "done" /\ ignore_processed
    /\ \E i \in 1..Len(new_processed_tweets) :
           /\ InSeq(new_processed_tweets[i], processed_tweets)
           /\ i < Len(new_processed_tweets)

\* the IDs in segment file j, none counted twice: what a walk through the file
\* can collect
DistinctIn(j) ==
    IF j \in DOMAIN fs[TheUser].seg
    THEN Cardinality({fs[TheUser].seg[j][i] : i \in 1..Len(fs[TheUser].seg[j])})
    ELSE 0

RECURSIVE DistinctAbove(_, _)
DistinctAbove(k, head) ==
    IF k >= head THEN 0 ELSE DistinctIn(k + 1) + DistinctAbove(k + 1, head)

\* whether a walk from the segment numbered head down, for at most limit IDs,
\* gets to segment k: the segments above k do not fill the limit
Reaches(k, head, limit) == DistinctAbove(k, head) < limit

\* the limit a load works with, as the docstring of load_from_file has it
EffectiveLimit(limit) == IF limit < 1 \/ limit > LOAD_MAX THEN LOAD_MAX ELSE limit

\* C11: a load raises RuntimeError ("may require repairs") exactly when its
\* walk, from the segment twt_db.file_num down, reaches a segment numbered
\* above 1 whose file is missing, and then returns nothing; it raises nothing
\* else; and when the walk reaches segment 1 and its file is missing, the load
\* returns the IDs of the segments above it (none for a log never written).
C11_RepairNeeded ==
    last.op = "load" =>
        /\ last.exc \in {Ok, "RuntimeError"}
        /\ (last.exc = "RuntimeError") <=>
               \E k \in 2..SegmentCount.v :
                   /\ k \notin DOMAIN fs[TheUser].seg
                   /\ Reaches(k, SegmentCount.v, EffectiveLimit(last.limit))
        /\ last.exc = "RuntimeError" => last.val = <<>>
        /\ (/\ last.exc = Ok
            /\ 1 \notin DOMAIN fs[TheUser].seg
            /\ Reaches(1, SegmentCount.v, EffectiveLimit(last.limit))) =>
               /\ Len(last.val) = DistinctAbove(1, SegmentCount.v)
               /\ \A j \in DOMAIN fs[TheUser].seg :
                      \A i \in 1..Len(fs[TheUser].seg[j]) :
                          InSeq(fs[TheUser].seg[j][i], last.val)

\* a load that met a missing segment 2 below the head and raised
C11_Witness ==
    /\ last.op = "load" /\ last.exc = "RuntimeError"
    /\ SegmentCount = IntV(2)
    /\ DOMAIN fs[TheUser].seg = {1}


-----------------------------------------------------------------------------
(* The metadata record *)

\* the value the record v holds at the path ks, Absent when a part of the
\* path is no key of the mapping it is looked up in
RECURSIVE At(_, _)
At(v, ks) ==
    IF ks = <<>> THEN v
    ELSE IF v.t = "dict" /\ Head(ks) \in DOMAIN v.v THEN At(v.v[Head(ks)], Tail(ks))
    ELSE Absent

\* C13: a flush that follows a successful mutation of the user's record (a
\* set_data that returned True, or a del_data of a key that returned True)
\* and raises nothing leaves the user's snapshot equal to the record in memory.
C13_MutationReachesDisk ==
    (last.op = "pd_save" /\ last.exc = Ok /\ last.mutated)
        => snap[TheUser] = loaded_data[TheUser]

\* C14: load_from_file(id) with a record for id in memory leaves that record
\* as it was, with or without a snapshot on disk; with none in memory it reads
\* the snapshot, or sets the defaults and marks the ID modified.
C14_LoadIdempotent ==
    (last.op = "pd_load" /\ last.exc = Ok) =>
        IF last.before # Absent THEN loaded_data[last.id] = last.before
        ELSE IF snap[last.id] = NoFile
        THEN loaded_data[last.id] = default_vals /\ InSeq(last.id, data_modified)
        ELSE loaded_data[last.id] = snap[last.id]

\* the record set_data works on: the one in memory before the call, the
\* defaults when there was none
SetRecord == IF last.before = Absent THEN default_vals ELSE last.before

\* the element a value holds at a list index, None where a list made for the
\* call has nothing yet (the path holds nothing, or the list ends before it)
Element(v, i) ==
    IF v # Absent /\ i + 1 <= Len(v.v) THEN v.v[i + 1] ELSE NoneV

\* the previous value of the target of the last set_data, None when absent
SetPrevious ==
    IF last.index = NoneV
    THEN IF At(SetRecord, last.key) = Absent THEN NoneV ELSE At(SetRecord, last.key)
    ELSE Element(At(SetRecord, last.key), last.index.v)

\* the value the target of the last set_data holds in the record in memory
SetStored ==
    IF last.index = NoneV
    THEN At(loaded_data[last.id], last.key)
    ELSE Element(At(loaded_data[last.id], last.key), last.index.v)

\* C15: a set_data that raises nothing returns False and leaves the record as
\* it was exactly when the new value (the one passed, or the one set_func
\* makes of the previous value) is None or equals the previous value;
\* otherwise it returns True, the target holds the new value and the ID is
\* marked modified.  For keys and for list indexes.
C15_SetChangedOrNothing ==
    (last.op = "pd_set" /\ last.exc = Ok) =>
        \A nv \in {ApplyFunc(last.fn, SetPrevious, last.val).val} :
            IF nv = NoneV \/ nv = SetPrevious
            THEN ~last.changed /\ loaded_data[last.id] = SetRecord
            ELSE /\ last.changed
                 /\ SetStored = nv
                 /\ InSeq(last.id, data_modified)

\* C16: a save_to_file that follows a save_to_file, nothing called in between,
\* leaves every snapshot as the first left it and _data_modified as it was.
C16_FlushIdempotent ==
    (last.op = "pd_save" /\ last.again) =>
        snap = last.before /\ data_modified = last.dirty

C16_Witness ==
    /\ last.op = "pd_save" /\ last.again /\ last.exc = Ok
    /\ data_modified = <<TheUser>>
    /\ snap[TheUser] = loaded_data[TheUser]
    /\ snap[TheUser] # default_vals

\* C17: after a process has died inside save_to_file, each user's snapshot is
\* the whole snapshot of before the call or the whole record the call was
\* writing.
C17_CrashKeepsSnapshot ==
    last.op = "pd_save_crash" =>
        \A u \in Users : snap[u] = last.before[u] \/ snap[u] = last.ld[u]

\* the value at the key of the last get_data, in the record it read
GetTarget == At(loaded_data[last.id], last.key)

\* C18: a get_data with an index whose key holds a list that ends before the
\* index, or a value that is no list, returns the default when one is passed
\* and raises when none is.
C18_DefaultForBadIndex ==
    (/\ last.op = "pd_get" /\ last.index # NoneV
     /\ GetTarget # Absent
     /\ GetTarget.t = "list" => Len(GetTarget.v) <= last.index.v) =>
        IF last.default # NoneV
        THEN last.exc = Ok /\ last.val = last.default
        ELSE last.exc # Ok

\* C19: a get_data on a key of two or more parts one of whose proper
\* prefixes holds a value that is no mapping raises, with or without a default.
C19_PrefixNotMappingRaises ==
    (/\ last.op = "pd_get"
     /\ \E i \in 1..(Len(last.key) - 1) :
            /\ At(loaded_data[last.id], SubSeq(last.key, 1, i)) # Absent
            /\ At(loaded_data[last.id], SubSeq(last.key, 1, i)).t # "dict") =>
        last.exc # Ok

-----------------------------------------------------------------------------
(* The run's counters *)

\* the int the record v holds at the key ks, that of the default record when
\* there is no record
Counter(v, ks) == IF v = Absent THEN At(default_vals, ks).v ELSE At(v, ks).v

\* C21: when main has updated the counters after a run for a user, the
\* user's record holds liked_tweets.count grown by the tweets marked,
\* imgs_downloaded grown by the images downloaded and requests_made grown by
\* the requests made, and the record of every other key is as it was.
C21_CountersOfTheUser ==
    (pc = "done" /\ last.op = "main") =>
        /\ loaded_data[TheUser] # Absent
        /\ Counter(loaded_data[TheUser], K_count)
               = Counter(last.before[TheUser], K_count) + Len(new_processed_tweets)
        /\ Counter(loaded_data[TheUser], K_imgs_downloaded)
               = Counter(last.before[TheUser], K_imgs_downloaded) + img_count
        /\ Counter(loaded_data[TheUser], K_requests_made)
               = Counter(last.before[TheUser], K_requests_made) + requests_count
        /\ \A k \in Keys \ {TheUser} : loaded_data[k] = last.before[k]

\* the tweets this run has marked that link to a site other than twitter.com
MarkedLinking ==
    {i \in 1..Len(Tweets) : /\ InSeq(Tweets[i].id, new_processed_tweets)
                            /\ check_for_external_urls(Tweets[i])}

\* C22: in a run, and after it, liked_tweets.with_external_urls of the
\* user's record (0 when the process began) is the number of tweets the run
\* has marked that link to a site other than twitter.com.
C22_LinkingCounted ==
    (pc \in {"run", "ended", "done"} /\ loaded_data[TheUser] # Absent) =>
        Counter(loaded_data[TheUser], K_with_external_urls) = Cardinality(MarkedLinking)

-----------------------------------------------------------------------------
(* Consolidation *)

\* the bookkeeping of the log in the record v, that of the default record
\* when there is no record
TwtDb(v) == At(IF v = Absent THEN default_vals ELSE v, <<"twt_db">>)

\* a step that is a save_to_file with no IDs, made when the user has no temp
\* directory or straight after a save_to_file that returned
ConsolidatesNothing ==
    /\ pc = "api"
    /\ last'.op = "save" /\ last'.twts = <<>>
    /\ ~fs[TheUser].tdir \/ (last.op = "save" /\ last.exc = Ok)

\* C23: a save_to_file with no IDs made when there is no temp directory, or
\* straight after another save_to_file, leaves the segment files,
\* twt_db.file_num and twt_db.line_count as they were.
C23_ConsolidateTwice ==
    [][ConsolidatesNothing =>
          /\ last'.exc = Ok
          /\ fs'[TheUser].seg = fs[TheUser].seg
          /\ TwtDb(loaded_data'[TheUser]) = TwtDb(loaded_data[TheUser])]_vars

\* a save_to_file with no IDs and nothing staged on a log of two segments
C23_Witness ==
    /\ last.op = "save" /\ last.twts = <<>> /\ last.pending = <<>>
    /\ last.exc = Ok
    /\ ~fs[TheUser].tdir
    /\ SegmentCount = IntV(2)

-----------------------------------------------------------------------------
(* Two users *)

\* the calls that name the ID whose store they work on
StoreOps == {"pd_get", "pd_set", "pd_del", "pd_load", "save", "save_temp", "load"}

\* C24: a call of get_data, set_data, del_data, load_from_file of
\* persistent_data, or of save_to_file, save_temp, load_from_file of
\* known_tweets_handler, for the ID a leaves as they were the record in memory
\* of every other ID b, whether b is marked modified, b's snapshot, and b's log
\* and temp files; and the record a get_data creates for a is the default
\* record, whatever was done to the records of other IDs.
C24_OtherIdsUntouched ==
    [][\A a \in Entities :
          (pc = "api" /\ last'.op \in StoreOps /\ last'.id = a) =>
              /\ \A b \in Keys \ {a} :
                     /\ loaded_data'[b] = loaded_data[b]
                     /\ InSeq(b, data_modified') = InSeq(b, data_modified)
                     /\ snap'[b] = snap[b]
                     /\ b \in Entities => fs'[b] = fs[b]
              /\ (last'.op = "pd_get" /\ loaded_data[a] = Absent) =>
                     loaded_data'[a] = default_vals]_vars

\* a call for the first user when both users have records, both changed and
\* not alike, and the second user has a log
C24_Witness ==
    /\ \A u \in Entities : loaded_data[u] \notin {Absent, default_vals}
    /\ loaded_data["1001"] # loaded_data["2002"]
    /\ fs["2002"].seg # NoFiles
    /\ InSeq("2002", data_modified)
    /\ last.op \in StoreOps /\ last.id = "1001"

-----------------------------------------------------------------------------
(* A request that fails *)

\* the images downloaded for the tweets ts
RECURSIVE ImgSum(_)
ImgSum(ts) ==
    IF ts = <<>> THEN 0
    ELSE (IF Head(ts).media THEN Head(ts).imgs ELSE 0) + ImgSum(Tail(ts))

\* the tweets of the pages the run has processed
Taken == Flatten(SubSeq(feed, 1, next_page - 1))

\* C25: an UnsuccessfulRequestError raised for a page of the feed does not
\* leave main (the one that does is raised by the lookup of the user's ID,
\* before any request was counted); the run ends with halt = 1, and
\* new_processed_tweets, tweet_count and img_count are what the pages
\* processed before it gave.
C25_FailureKeepsTotals ==
    /\ (pc = "crashed" /\ last.op = "main" /\ last.exc = "UnsuccessfulRequestError")
           => requests_count = 0
    /\ (pc \in {"ended", "done"} /\ halt = 1) =>
           /\ new_processed_tweets = MediaIds(Taken)
           /\ tweet_count = Len(MediaIds(Taken))
           /\ img_count = ImgSum(Taken)

\* a run that failed on its second page after a page with an image
C25_Witness ==
    /\ pc = "done" /\ halt = 1
    /\ next_page = 2 /\ Len(feed) >= 2
    /\ new_processed_tweets # <<>>
    /\ img_count >= 1

-----------------------------------------------------------------------------
(* The bookkeeping after a restart *)

\* C26: when a new process has loaded the user's record (from the snapshot,
\* or the defaults when there is none), twt_db.file_num is the number of the
\* highest segment file, the count read from twt_db.line_count for each
\* segment is the number of lines in its file, and no segment holds more
\* lines than the limit the appends worked with.
C26_CountsSurviveRestart ==
    (last.op = "pd_load" /\ last.exc = Ok /\ last.before = Absent) =>
        /\ SegmentCount = IntV(Max(1, Highest(fs[TheUser].seg)))
        /\ \A k \in 1..SegmentCount.v :
               LineCount(k) = IntV(Len(LinesUpTo(fs[TheUser].seg, k))
                                   - Len(LinesUpTo(fs[TheUser].seg, k - 1)))
        /\ \A k \in DOMAIN fs[TheUser].seg : Len(fs[TheUser].seg[k]) <= LIMIT_DEFAULT

-----------------------------------------------------------------------------
(* The IDs marked modified *)

\* C27: a save_to_file of persistent_data that raises nothing leaves no ID
\* marked modified, so that the next one writes only the IDs whose records
\* were changed after it.
C27_FlushClearsDirty ==
    (last.op = "pd_save" /\ last.exc = Ok) => data_modified = <<>>

\* C28: after a save_temp that raised nothing, with k batches staged since
\* the last save_to_file, the temp files are those numbered 1 to k, file j
\* holds the j-th of the batches, and temp_db.file_num of the user's record
\* is k.
C28_TempFilesNumbered ==
    (last.op = "save_temp" /\ last.exc = Ok) =>
        /\ DOMAIN fs[TheUser].tmp = 1..Len(staged)
        /\ \A j \in 1..Len(staged) : fs[TheUser].tmp[j] = staged[j]
        /\ At(loaded_data[TheUser], K_temp_file_num) = IntV(Len(staged))

\* C29: a set_data that returns False leaves the record as it was (the
\* default record when the call created it), and an ID that had a record is
\* marked modified after it only if it was before.
C29_UnchangedSetKeepsRecord ==
    [][\A u \in Users :
          (/\ pc = "api"
           /\ last'.op = "pd_set" /\ last'.id = u
           /\ last'.exc = Ok /\ ~last'.changed) =>
              /\ loaded_data'[u] = IF loaded_data[u] = Absent THEN default_vals
                                   ELSE loaded_data[u]
              /\ loaded_data[u] # Absent => data_modified' = data_modified]_vars

\* C30: every ID marked modified has a record in memory, and save_to_file of
\* persistent_data does not fail for the lack of one.
C30_DirtyHaveRecords ==
    /\ \A i \in 1..Len(data_modified) : loaded_data[data_modified[i]] # Absent
    /\ last.op = "pd_save" => last.exc # "KeyError"

-----------------------------------------------------------------------------
(* file_utils.readline_reverse on the bytes of a file *)

\* the longest file read
MaxBytes == 6

\* the default of sep, b"\n"
LF == 10
\* file_utils.MIN_BUFF_SIZE and MAX_BUFF_SIZE, scaled
MIN_BUFF_SIZE == 1
MAX_BUFF_SIZE == 3

\* the bytes of the files: the separator, a space and two digits
FileBytes == {LF, 32, 49, 50}
RECURSIVE BytesUpTo(_)
BytesUpTo(n) ==
    IF n = 0 THEN {<<>>}
    ELSE BytesUpTo(n - 1) \cup
         {Append(s, b) : s \in {t \in BytesUpTo(n - 1) : Len(t) = n - 1}, b \in FileBytes}
Contents == BytesUpTo(MaxBytes)

\* the separators the program passes: known_tweets_handler leaves the default
Seps == {<<LF>>}
\* the buff_size arguments (None asks for the block size of the file) and the
\* block sizes os.fstat may report
BuffSizes == {NoneV} \cup {IntV(n) : n \in 0..(MAX_BUFF_SIZE + 1)}
BlockSizes == MIN_BUFF_SIZE..MAX_BUFF_SIZE

BytesV(b) == [t |-> "bytes", v |-> b]

\* val.decode(encoding) of ASCII bytes
Chr(b) == CASE b = 10 -> "\n" [] b = 32 -> " " [] b = 49 -> "1" [] OTHER -> "2"
decode(val) == [i \in 1..Len(val) |-> Chr(val[i])]

\* str.strip()
Whitespace == {" ", "\n"}
Inner(s) == {i \in 1..Len(s) : s[i] \notin Whitespace}
Lowest(S) == CHOOSE i \in S : \A j \in S : i <= j
Topmost(S) == CHOOSE i \in S : \A j \in S : j <= i
strip(s) == IF Inner(s) = {} THEN <<>> ELSE SubSeq(s, Lowest(Inner(s)), Topmost(Inner(s)))

\* file_utils._decode_and_strip
_decode_and_strip(val) ==
    IF val.t # "bytes" THEN NoneV ELSE [t |-> "str", v |-> strip(decode(val.v))]

\* bytes.split(sep): the first place where sep starts, 0 if there is none
Places(buffer, sep) ==
    {i \in 1..(Len(buffer) - Len(sep) + 1) : SubSeq(buffer, i, i + Len(sep) - 1) = sep}
RECURSIVE split(_, _)
split(buffer, sep) ==
    IF Places(buffer, sep) = {} THEN <<buffer>>
    ELSE <<SubSeq(buffer, 1, Lowest(Places(buffer, sep)) - 1)>> \o
         split(SubSeq(buffer, Lowest(Places(buffer, sep)) + Len(sep), Len(buffer)), sep)

\* f.seek(f_size - offset); f.read(n)
ReadAt(content, pos, n) == SubSeq(content, pos + 1, Min(pos + n, Len(content)))

\* Variant of JoinLeftover: the start of a line is never joined with the rest
\* of it that the chunk before held
JoinLeftoverDropped(lines, leftover) == lines

\* if leftover: lines[-1] += leftover
JoinLeftover(lines, leftover) ==
    IF leftover # NoneV /\ leftover.v # <<>>
    THEN SubSeq(lines, 1, Len(lines) - 1) \o <<lines[Len(lines)] \o leftover.v>>
    ELSE lines

\* what one line yields: l = _decode_and_strip(l, encoding); if l: yield l
YieldOf(l) == IF l.t = "str" /\ l.v # <<>> THEN <<l.v>> ELSE <<>>

\* for l in lines[-1:0:-1]
RECURSIVE YieldFrom(_, _)
YieldFrom(lines, i) ==
    IF i < 2 THEN <<>>
    ELSE YieldOf(_decode_and_strip(BytesV(lines[i]))) \o YieldFrom(lines, i - 1)

\* the while loop, and the leftover after it
RECURSIVE ReadChunks(_, _, _, _, _, _)
Chunk(content, sep, buff_size, offset, r_size, lines) ==
    YieldFrom(lines, Len(lines)) \o
    ReadChunks(content, sep, buff_size, offset, r_size - buff_size, BytesV(lines[1]))
ReadChunks(content, sep, buff_size, offset, r_size, leftover) ==
    IF r_size > 0
    THEN Chunk(content, sep, buff_size, Min(Len(content), offset + buff_size), r_size,
               JoinLeftover(split(ReadAt(content,
                                         Len(content) - Min(Len(content), offset + buff_size),
                                         Min(r_size, buff_size)),
                                  sep),
                            leftover))
    ELSE YieldOf(_decode_and_strip(leftover))

\* buff_size = min(max(MIN_BUFF_SIZE, buff_size), MAX_BUFF_SIZE)
Clamped(buff_size, blksize) ==
    Min(Max(MIN_BUFF_SIZE, IF buff_size.t # "int" THEN blksize ELSE buff_size.v),
        MAX_BUFF_SIZE)

\* file_utils.readline_reverse(fpath, sep, encoding, buff_size) on a file that
\* holds content: the sequence of the values it yields
readline_reverse_bytes(content, sep, buff_size, blksize) ==
    ReadChunks(content, sep, Clamped(buff_size, blksize), 0, Len(content), NoneV)

\* a process that reads a file from its end
ReadFile(sep, buff_size, blksize) ==
    /\ pc = "idle"
    /\ last.op = "file"
    /\ last' = [op |-> "readline_reverse", content |-> last.content, sep |-> sep,
                buff_size |-> Clamped(buff_size, blksize),
                yielded |-> readline_reverse_bytes(last.content, sep, buff_size, blksize)]
    /\ UNCHANGED <<pc, storeVars, histVars, runVars>>

InitRead ==
    /\ pc = "idle"
    /\ loaded_data = [k \in Keys |-> Absent]
    /\ data_modified = <<>>
    /\ snap = [k \in Keys |-> NoFile]
    /\ fs = [u \in Entities |-> EmptyDir]
    /\ last \in {[op |-> "file", content |-> c] : c \in Contents}
    /\ appended = <<>>
    /\ staged = <<>>
    /\ caps = {}
    /\ feed = <<>>
    /\ ignore_processed = FALSE
    /\ next_page = 1
    /\ processed_tweets = <<>>
    /\ new_processed_tweets = <<>>
    /\ halt = 0
    /\ img_count = 0
    /\ tweet_count = 0
    /\ requests_count = 0
    /\ calls = 0
    /\ inspected = 0
    /\ runs = 0
    /\ marked = <<>>
    /\ issued = 0

NextRead ==
    \E sep \in Seps, buff_size \in BuffSizes, blksize \in BlockSizes :
        ReadFile(sep, buff_size, blksize)

\* files of every content, read from the end with every buffer size
SpecRead == InitRead /\ [][NextRead]_vars

-----------------------------------------------------------------------------
(* The reading of a file from its end, and the requests of a process *)

\* the decoded, stripped, non-blank lines of a list of lines, in its order
RECURSIVE NonBlank(_)
NonBlank(lines) ==
    IF lines = <<>> THEN <<>>
    ELSE (IF strip(decode(Head(lines))) = <<>> THEN <<>> ELSE <<strip(decode(Head(lines)))>>)
         \o NonBlank(Tail(lines))

\* the places where one chunk ends and the chunk read before it starts
Boundaries(content, buff_size) ==
    {p \in 1..(Len(content) - 1) : (Len(content) - p) % buff_size = 0}

\* C31: readline_reverse yields the non-blank lines of the file, each once,
\* last first: the sequence is the one that splitting the whole file on the
\* separator and reversing gives, for every content and every buffer size
C31_ReverseOfSplit ==
    last.op = "readline_reverse" =>
        last.yielded = Reverse(NonBlank(split(last.content, last.sep)))

\* a file of several chunks is read: a line straddles a chunk boundary, the
\* separator is next to another boundary, the file does not end with the
\* separator, and two lines are yielded
C31_Witness ==
    /\ last.op = "readline_reverse"
    /\ Len(last.yielded) >= 2
    /\ last.content[Len(last.content)] # LF
    /\ \E p \in Boundaries(last.content, last.buff_size) :
           last.content[p] \in {49, 50} /\ last.content[p + 1] \in {49, 50}
    /\ \E p \in Boundaries(last.content, last.buff_size) : last.content[p] = LF

\* C32: in every state of a process requests_count is at most max_requests and
\* so is the number of requests sent to the API, the lookup of the user's ID
\* and the fetches of pages, answered with status 200 or not; once the count
\* has reached max_requests a further fetch raises RequestCountError and
\* sends nothing
C32_RequestsWithinBudget ==
    /\ [](requests_count <= MAX_REQUESTS /\ issued <= MAX_REQUESTS)
    /\ [][(pc = "run" /\ Requests /\ requests_count >= MAX_REQUESTS)
            => /\ issued' = issued
               /\ requests_count' = requests_count
               /\ pc' = "crashed"
               /\ last' = [op |-> "main", exc |-> "RequestCountError"]]_vars

\* the lookup and the pages have used the budget, and the fetch of one more
\* page has raised RequestCountError
C32_Witness ==
    /\ pc = "crashed"
    /\ last = [op |-> "main", exc |-> "RequestCountError"]
    /\ requests_count = MAX_REQUESTS
    /\ issued = MAX_REQUESTS
====
